---------------------------- MODULE Spec2Model ----------------------------
(***************************************************************************)
(* A model of baml-sap-ts: the JSON extractor (json-extractor.ts), the     *)
(* type coercer (type-coercer.ts) and the orchestrator (index.ts).         *)
(*                                                                         *)
(* A text is a sequence of characters; a character is a one-element TLA+   *)
(* string, except the backtick and the four typographic quotes, which are  *)
(* written by their code points ("u0060", "u201C", ...).  Numbers range    *)
(* over the integers: the character "." and the exponent forms are outside *)
(* the texts the model draws, so every JSON number of the model is an      *)
(* integer; so is the backslash, so no string of the model has an escape.  *)
(***************************************************************************)
EXTENDS Integers, Sequences, FiniteSets, TLC

----------------------------------------------------------------------------
(* Characters *)

LBRACE == "{"
RBRACE == "}"
LBRACK == "["
RBRACK == "]"
DQUOTE == "\""
SQUOTE == "'"
COMMA  == ","
COLON  == ":"
NEWLINE == "\n"
SPACE  == " "
BTICK  == "u0060"
LDQUO  == "u201C"
RDQUO  == "u201D"
LSQUO  == "u2018"
RSQUO  == "u2019"

Digits == {"0", "1", "2", "3", "4", "5", "6", "7", "8", "9"}

LowerLetters ==
    {"a", "b", "c", "d", "e", "f", "g", "h", "i", "j", "k", "l", "m",
     "n", "o", "p", "q", "r", "s", "t", "u", "v", "w", "x", "y", "z"}

UpperLetters ==
    {"A", "B", "C", "D", "E", "F", "G", "H", "I", "J", "K", "L", "M",
     "N", "O", "P", "Q", "R", "S", "T", "U", "V", "W", "X", "Y", "Z"}

\* \s of a regular expression, String.prototype.trim and JSON whitespace
IsSpace(c) == c \in {" ", "\n", "\t", "\r"}

IsDigit(c) == c \in Digits

\* \w of a regular expression
IsWordChar(c) == c \in LowerLetters \cup UpperLetters \cup Digits \cup {"_"}

\* [a-zA-Z_$] and [a-zA-Z0-9_$] of the bare-key rewrite
IsIdentStart(c) == c \in LowerLetters \cup UpperLetters \cup {"_", "$"}
IsIdentChar(c) == IsIdentStart(c) \/ IsDigit(c)

DigitVal(c) ==
    CASE c = "0" -> 0 [] c = "1" -> 1 [] c = "2" -> 2 [] c = "3" -> 3
      [] c = "4" -> 4 [] c = "5" -> 5 [] c = "6" -> 6 [] c = "7" -> 7
      [] c = "8" -> 8 [] c = "9" -> 9

DigitChar(n) ==
    CASE n = 0 -> "0" [] n = 1 -> "1" [] n = 2 -> "2" [] n = 3 -> "3"
      [] n = 4 -> "4" [] n = 5 -> "5" [] n = 6 -> "6" [] n = 7 -> "7"
      [] n = 8 -> "8" [] n = 9 -> "9"

ToLowerChar(c) ==
    CASE c = "A" -> "a" [] c = "B" -> "b" [] c = "C" -> "c" [] c = "D" -> "d"
      [] c = "E" -> "e" [] c = "F" -> "f" [] c = "G" -> "g" [] c = "H" -> "h"
      [] c = "I" -> "i" [] c = "J" -> "j" [] c = "K" -> "k" [] c = "L" -> "l"
      [] c = "M" -> "m" [] c = "N" -> "n" [] c = "O" -> "o" [] c = "P" -> "p"
      [] c = "Q" -> "q" [] c = "R" -> "r" [] c = "S" -> "s" [] c = "T" -> "t"
      [] c = "U" -> "u" [] c = "V" -> "v" [] c = "W" -> "w" [] c = "X" -> "x"
      [] c = "Y" -> "y" [] c = "Z" -> "z" [] OTHER -> c

----------------------------------------------------------------------------
(* Texts *)

Min(S) == CHOOSE x \in S : \A y \in S : x <= y
Max(S) == CHOOSE x \in S : \A y \in S : x >= y

\* s.substring(i-1, j): the characters at the 1-based positions i..j
Sub(s, i, j) == IF j < i THEN << >> ELSE SubSeq(s, i, j)

ToLower(s) == [k \in 1..Len(s) |-> ToLowerChar(s[k])]

\* whether pattern p occurs in s at position i
MatchAt(s, p, i) ==
    /\ i >= 1
    /\ i + Len(p) - 1 <= Len(s)
    /\ \A k \in 1..Len(p) : s[i + k - 1] = p[k]

\* the first position >= from at which p occurs in s, or 0
IndexOf(s, p, from) ==
    LET hits == {i \in from..(Len(s) - Len(p) + 1) : MatchAt(s, p, i)}
    IN  IF hits = {} THEN 0 ELSE Min(hits)

\* the first position >= i that holds no white space (Len(s)+1 if none)
SkipWs(s, i) ==
    Min({j \in i..(Len(s) + 1) : j = Len(s) + 1 \/ ~IsSpace(s[j])})

\* String.prototype.trim
Trim(s) ==
    LET a == SkipWs(s, 1)
    IN  IF a > Len(s) THEN << >>
        ELSE LET b == Max({j \in 1..Len(s) : ~IsSpace(s[j])})
             IN  Sub(s, a, b)

\* how many positions of s hold the character c
CountChar(s, c) == Cardinality({i \in 1..Len(s) : s[i] = c})

\* n copies of the character c
Repeat(c, n) == [k \in 1..n |-> c]

----------------------------------------------------------------------------
(* Dynamic values: the results of JSON.parse and of the coercer *)

Null == [t |-> "null", v |-> 0]
Undefined == [t |-> "undefined", v |-> 0]
Bool(b) == [t |-> "boolean", v |-> b]
Num(n) == [t |-> "number", v |-> n]
Str(cs) == [t |-> "string", v |-> cs]
Arr(items) == [t |-> "array", v |-> items]
\* an object: its entries [k, v] in the order Object.entries lists them
Obj(entries) == [t |-> "object", v |-> entries]

IsNullish(x) == x.t = "null" \/ x.t = "undefined"

----------------------------------------------------------------------------
(* Objects: own enumerable string keys in the order of OrdinaryOwnPropertyKeys,
   the integer-index keys first in ascending order, then the others in the
   order they were first set *)

RECURSIVE DecimalValue(_)
DecimalValue(cs) ==
    IF Len(cs) = 0 THEN 0
    ELSE 10 * DecimalValue(Sub(cs, 1, Len(cs) - 1)) + DigitVal(cs[Len(cs)])

\* a canonical array index: "0", or digits with no leading zero
IsIndexKey(k) ==
    /\ Len(k) >= 1
    /\ \A i \in 1..Len(k) : IsDigit(k[i])
    /\ (Len(k) > 1 => k[1] # "0")

HasKey(entries, k) == \E i \in 1..Len(entries) : entries[i].k = k

\* obj[k], undefined when k is no key
GetKey(entries, k) ==
    IF HasKey(entries, k)
    THEN entries[CHOOSE i \in 1..Len(entries) : entries[i].k = k].v
    ELSE Undefined

\* the keys every object literal inherits from Object.prototype
ObjectPrototypeKeys ==
    { << "c", "o", "n", "s", "t", "r", "u", "c", "t", "o", "r" >>,
      << "h", "a", "s", "O", "w", "n", "P", "r", "o", "p", "e", "r", "t", "y" >>,
      << "i", "s", "P", "r", "o", "t", "o", "t", "y", "p", "e", "O", "f" >>,
      << "p", "r", "o", "p", "e", "r", "t", "y", "I", "s", "E", "n", "u", "m", "e", "r", "a", "b", "l", "e" >>,
      << "t", "o", "L", "o", "c", "a", "l", "e", "S", "t", "r", "i", "n", "g" >>,
      << "t", "o", "S", "t", "r", "i", "n", "g" >>,
      << "v", "a", "l", "u", "e", "O", "f" >>,
      << "_", "_", "p", "r", "o", "t", "o", "_", "_" >>,
      << "_", "_", "d", "e", "f", "i", "n", "e", "G", "e", "t", "t", "e", "r", "_", "_" >>,
      << "_", "_", "d", "e", "f", "i", "n", "e", "S", "e", "t", "t", "e", "r", "_", "_" >>,
      << "_", "_", "l", "o", "o", "k", "u", "p", "G", "e", "t", "t", "e", "r", "_", "_" >>,
      << "_", "_", "l", "o", "o", "k", "u", "p", "S", "e", "t", "t", "e", "r", "_", "_" >> }

\* key in obj, for an object literal with the own keys of entries
In(key, entries) == HasKey(entries, key) \/ key \in ObjectPrototypeKeys

\* where a new key k is inserted
InsertPos(entries, k) ==
    IF IsIndexKey(k)
    THEN Min({i \in 1..(Len(entries) + 1) :
                \/ i = Len(entries) + 1
                \/ ~IsIndexKey(entries[i].k)
                \/ DecimalValue(entries[i].k) > DecimalValue(k)})
    ELSE Len(entries) + 1

\* obj[k] = x
SetKey(entries, k, x) ==
    LET Insert(p) ==
            Sub(entries, 1, p - 1) \o << [k |-> k, v |-> x] >>
              \o Sub(entries, p, Len(entries))
    IN  IF HasKey(entries, k)
        THEN [i \in 1..Len(entries) |->
                IF entries[i].k = k THEN [k |-> k, v |-> x] ELSE entries[i]]
        ELSE Insert(InsertPos(entries, k))

----------------------------------------------------------------------------
(* JSON.parse: a strict recursive-descent recognizer.  A parse step returns
   [ok, val, next]: whether it succeeded, the value, and the position after
   it. *)

ParseFail == [ok |-> FALSE, val |-> Null, next |-> 0]
ParseOk(x, n) == [ok |-> TRUE, val |-> x, next |-> n]

\* a string body from position i (after the opening quote); a raw control
\* character in a string is a syntax error
ParseString(s, i) ==
    LET Closed(j) ==
            IF j = 0 THEN ParseFail
            ELSE IF \E k \in i..(j - 1) : s[k] \in {"\n", "\t", "\r"}
            THEN ParseFail
            ELSE ParseOk(Str(Sub(s, i, j - 1)), j + 1)
    IN  Closed(IndexOf(s, << DQUOTE >>, i))

\* -? (0 | [1-9][0-9]*)
ParseNumber(s, i) ==
    LET Magnitude(neg, a, b) ==
            ParseOk(Num(IF neg THEN 0 - DecimalValue(Sub(s, a, b))
                        ELSE DecimalValue(Sub(s, a, b))), b + 1)
        Signed(neg, a) ==
            IF a > Len(s) \/ ~IsDigit(s[a]) THEN ParseFail
            ELSE Magnitude(neg, a,
                         IF s[a] = "0" THEN a
                         ELSE Min({j \in a..Len(s) :
                                     j = Len(s) \/ ~IsDigit(s[j + 1])}))
    IN  Signed(s[i] = "-", IF s[i] = "-" THEN i + 1 ELSE i)

ParseLiteral(s, i) ==
    IF MatchAt(s, << "t", "r", "u", "e" >>, i) THEN ParseOk(Bool(TRUE), i + 4)
    ELSE IF MatchAt(s, << "f", "a", "l", "s", "e" >>, i)
    THEN ParseOk(Bool(FALSE), i + 5)
    ELSE IF MatchAt(s, << "n", "u", "l", "l" >>, i) THEN ParseOk(Null, i + 4)
    ELSE ParseFail

RECURSIVE ParseValue(_, _), ParseMembers(_, _, _), ParseElements(_, _, _)
RECURSIVE MemberValue(_, _, _), MemberEnd(_, _, _, _), ElementEnd(_, _, _)

\* the members of an object from position i0, entries acc already read
ParseMembers(s, i0, acc) ==
    LET i == SkipWs(s, i0)
    IN  IF i > Len(s) \/ s[i] # DQUOTE THEN ParseFail
        ELSE MemberValue(s, ParseString(s, i + 1), acc)

\* a member from its key on: the colon and the value
MemberValue(s, key, acc) ==
    LET c == SkipWs(s, key.next)
    IN  IF ~key.ok THEN ParseFail
        ELSE IF c > Len(s) \/ s[c] # COLON THEN ParseFail
        ELSE MemberEnd(s, key, ParseValue(s, c + 1), acc)

\* a member from its value on: a comma and more members, or the brace
MemberEnd(s, key, val, acc) ==
    LET e == SkipWs(s, val.next)
    IN  IF ~val.ok THEN ParseFail
        ELSE IF e > Len(s) THEN ParseFail
        ELSE IF s[e] = COMMA
        THEN ParseMembers(s, e + 1, SetKey(acc, key.val.v, val.val))
        ELSE IF s[e] = RBRACE
        THEN ParseOk(Obj(SetKey(acc, key.val.v, val.val)), e + 1)
        ELSE ParseFail

\* the elements of an array from position i0, items acc already read
ParseElements(s, i0, acc) == ElementEnd(s, ParseValue(s, i0), acc)

\* an element from its value on: a comma and more elements, or the bracket
ElementEnd(s, val, acc) ==
    LET e == SkipWs(s, val.next)
    IN  IF ~val.ok THEN ParseFail
        ELSE IF e > Len(s) THEN ParseFail
        ELSE IF s[e] = COMMA THEN ParseElements(s, e + 1, Append(acc, val.val))
        ELSE IF s[e] = RBRACK THEN ParseOk(Arr(Append(acc, val.val)), e + 1)
        ELSE ParseFail

ParseValue(s, i0) ==
    LET i == SkipWs(s, i0)
        j == SkipWs(s, i + 1)
    IN  IF i > Len(s) THEN ParseFail
        ELSE IF s[i] = LBRACE
        THEN IF j <= Len(s) /\ s[j] = RBRACE THEN ParseOk(Obj(<< >>), j + 1)
             ELSE ParseMembers(s, i + 1, << >>)
        ELSE IF s[i] = LBRACK
        THEN IF j <= Len(s) /\ s[j] = RBRACK THEN ParseOk(Arr(<< >>), j + 1)
             ELSE ParseElements(s, i + 1, << >>)
        ELSE IF s[i] = DQUOTE THEN ParseString(s, i + 1)
        ELSE IF s[i] = "-" \/ IsDigit(s[i]) THEN ParseNumber(s, i)
        ELSE ParseLiteral(s, i)

\* JSON.parse(s): [ok, val]; ok = FALSE stands for the SyntaxError it throws
JsonParse(s) ==
    LET Whole(r) ==
            IF r.ok /\ SkipWs(s, r.next) = Len(s) + 1
            THEN [ok |-> TRUE, val |-> r.val]
            ELSE [ok |-> FALSE, val |-> Null]
    IN  Whole(ParseValue(s, 1))

----------------------------------------------------------------------------
(* The JSON extractor *)

\* ExtractionOptions after the merge with defaultOptions: every field is set
DefaultExtractionOptions ==
    [allowMarkdownJson |-> TRUE, allowFixes |-> TRUE, allowAsString |-> TRUE,
     findAllJsonObjects |-> TRUE, normalizeUnicodeQuotes |-> TRUE,
     maxDepth |-> 100]

NormalizeChar(c) ==
    IF c = LDQUO \/ c = RDQUO THEN DQUOTE
    ELSE IF c = LSQUO \/ c = RSQUO THEN SQUOTE
    ELSE c

normalizeUnicodeQuotes(text) == [k \in 1..Len(text) |-> NormalizeChar(text[k])]

(* An ExtractionResult, with kind "result"; kind "null" is the null a
   strategy returns when it fails and kind "throw" the Error extractJson
   throws.  An absent fromMarkdown is FALSE and an absent fixes is << >>.
   Three fields are the model's record of how the value was produced: via,
   the strategy of the ladder that returned it; repairs, which repairs its
   value went through ("rewrite": parsed from a text applyJsonFixes changed,
   "partial": parsed from a text completed with closing brackets); ran, the
   functions that were called. *)
Result(value, raw, fromMarkdown, fixes, isPartial, via, repairs, ran) ==
    [kind |-> "result", value |-> value, raw |-> raw,
     fromMarkdown |-> fromMarkdown, fixes |-> fixes, isPartial |-> isPartial,
     via |-> via, repairs |-> repairs, ran |-> ran]

NoResult(ran) ==
    [kind |-> "null", value |-> Null, raw |-> << >>, fromMarkdown |-> FALSE,
     fixes |-> << >>, isPartial |-> FALSE, via |-> "none", repairs |-> {},
     ran |-> ran]

Thrown(ran) ==
    [kind |-> "throw", value |-> Null, raw |-> << >>, fromMarkdown |-> FALSE,
     fixes |-> << >>, isPartial |-> FALSE, via |-> "none", repairs |-> {},
     ran |-> ran]

\* [...new Set([...a, ...b])]
RECURSIVE MergeFixes(_, _)
MergeFixes(a, b) ==
    IF Len(b) = 0 THEN a
    ELSE MergeFixes(IF \E i \in 1..Len(a) : a[i] = b[1] THEN a
                    ELSE Append(a, b[1]),
                    Tail(b))

withPreprocessingFixes(result, preprocessingFixes, originalRawText) ==
    IF Len(preprocessingFixes) = 0
    THEN [result EXCEPT !.raw = originalRawText]
    ELSE [result EXCEPT !.raw = originalRawText,
                        !.fixes = MergeFixes(result.fixes, preprocessingFixes)]

looksLikeJson(text) ==
    LET Looks(trimmed) ==
            IF Len(trimmed) = 0 THEN FALSE
            ELSE \/ trimmed[1] = LBRACE /\ trimmed[Len(trimmed)] = RBRACE
                 \/ trimmed[1] = LBRACK /\ trimmed[Len(trimmed)] = RBRACK
                 \/ trimmed[1] = DQUOTE /\ trimmed[Len(trimmed)] = DQUOTE
                 \/ IsDigit(trimmed[1])
                 \/ (Len(trimmed) >= 2 /\ trimmed[1] = "-" /\ IsDigit(trimmed[2]))
                 \/ trimmed = << "t", "r", "u", "e" >>
                 \/ trimmed = << "f", "a", "l", "s", "e" >>
                 \/ trimmed = << "n", "u", "l", "l" >>
    IN  Looks(Trim(text))

tryParseDirect(text, isDone) ==
    LET Direct(trimmed, parsed) ==
            IF ~looksLikeJson(trimmed) THEN NoResult({"tryParseDirect"})
            ELSE IF parsed.ok
            THEN Result(parsed.val, text, FALSE, << >>, ~isDone,
                        "direct", {}, {"tryParseDirect"})
            ELSE NoResult({"tryParseDirect"})
    IN  Direct(Trim(text), JsonParse(Trim(text)))

\* text.replace(/,(\s*[}\]])/g, "$1"), from position i
RECURSIVE DropTrailingCommas(_, _)
DropTrailingCommas(s, i) ==
    LET Comma(j) ==
            IF s[i] = COMMA /\ j <= Len(s) /\ s[j] \in {RBRACE, RBRACK}
            THEN Sub(s, i + 1, j) \o DropTrailingCommas(s, j + 1)
            ELSE << s[i] >> \o DropTrailingCommas(s, i + 1)
    IN  IF i > Len(s) THEN << >> ELSE Comma(SkipWs(s, i + 1))

\* text.replace(/([{,]\s*)'([^']+)'(\s*:)/g, '$1"$2"$3'), from position i
RECURSIVE QuoteSingleQuotedKeys(_, _)
QuoteSingleQuotedKeys(s, i) ==
    LET Key(a, b, c) ==
            IF /\ s[i] \in {LBRACE, COMMA}
               /\ a <= Len(s) /\ s[a] = SQUOTE
               /\ b > a + 1
               /\ c <= Len(s) /\ s[c] = COLON
            THEN Sub(s, i, a - 1) \o << DQUOTE >> \o Sub(s, a + 1, b - 1)
                   \o << DQUOTE >> \o Sub(s, b + 1, c)
                   \o QuoteSingleQuotedKeys(s, c + 1)
            ELSE << s[i] >> \o QuoteSingleQuotedKeys(s, i + 1)
        Closing(a, b) == Key(a, b, IF b = 0 THEN 0 ELSE SkipWs(s, b + 1))
        Opening(a) ==
            Closing(a, IF a < Len(s) THEN IndexOf(s, << SQUOTE >>, a + 1) ELSE 0)
    IN  IF i > Len(s) THEN << >> ELSE Opening(SkipWs(s, i + 1))

\* text.replace(/([{,]\s*)([a-zA-Z_$][a-zA-Z0-9_$]*)\s*:/g, '$1"$2":'),
\* from position i
RECURSIVE QuoteBareKeys(_, _)
QuoteBareKeys(s, i) ==
    LET Key(a, b, c) ==
            IF /\ s[i] \in {LBRACE, COMMA}
               /\ b # 0
               /\ c <= Len(s) /\ s[c] = COLON
            THEN Sub(s, i, a - 1) \o << DQUOTE >> \o Sub(s, a, b)
                   \o << DQUOTE, COLON >> \o QuoteBareKeys(s, c + 1)
            ELSE << s[i] >> \o QuoteBareKeys(s, i + 1)
        Ident(a, b) == Key(a, b, IF b = 0 THEN 0 ELSE SkipWs(s, b + 1))
        Start(a) ==
            Ident(a, IF a <= Len(s) /\ IsIdentStart(s[a])
                     THEN Min({j \in a..Len(s) :
                                 j = Len(s) \/ ~IsIdentChar(s[j + 1])})
                     ELSE 0)
    IN  IF i > Len(s) THEN << >> ELSE Start(SkipWs(s, i + 1))

applyJsonFixes(text) ==
    QuoteBareKeys(
        QuoteSingleQuotedKeys(DropTrailingCommas(Trim(text), 1), 1), 1)

\* JavaScript truthiness of a dynamic value: if (partial) ...
Truthy(x) ==
    CASE x.t = "null" -> FALSE
      [] x.t = "undefined" -> FALSE
      [] x.t = "boolean" -> x.v
      [] x.t = "number" -> x.v # 0
      [] x.t = "string" -> Len(x.v) > 0
      [] OTHER -> TRUE

\* [ok, val]: ok = FALSE is the null it returns
tryExtractPartialJson(text) ==
    LET Completed(fixed0) ==
            LET openBraces == CountChar(fixed0, LBRACE)
                closeBraces == CountChar(fixed0, RBRACE)
                openBrackets == CountChar(fixed0, LBRACK)
                closeBrackets == CountChar(fixed0, RBRACK)
            IN  fixed0
                  \o Repeat(RBRACE, Max({0, openBraces - closeBraces}))
                  \o Repeat(RBRACK, Max({0, openBrackets - closeBrackets}))
    IN  JsonParse(Completed(Trim(text)))

tryFixJson(text, options, isDone, depth) ==
    LET Attempt(fixedResult, fixes, parsed, partial) ==
            IF parsed.ok
            THEN Result(parsed.val, text, FALSE, fixes, ~isDone, "fix",
                        IF fixedResult # Trim(text) THEN {"rewrite"} ELSE {},
                        {"tryFixJson", "applyJsonFixes"})
            ELSE IF partial.ok /\ Truthy(partial.val)
            THEN Result(partial.val, text, FALSE,
                        Append(fixes, "extracted_partial"), TRUE, "fix",
                        {"partial"},
                        {"tryFixJson", "applyJsonFixes", "tryExtractPartialJson"})
            ELSE NoResult({"tryFixJson", "applyJsonFixes",
                           "tryExtractPartialJson"})
    IN  Attempt(applyJsonFixes(text),
                IF applyJsonFixes(text) # text THEN << "applied_auto_fixes" >>
                ELSE << >>,
                JsonParse(applyJsonFixes(text)), tryExtractPartialJson(text))

Fence == << BTICK, BTICK, BTICK >>

\* FenceMatch with a greedy body: the closing fence is the last one
FenceMatchGreedy(s, p) ==
    LET Match(q, b, c, e) ==
            IF (p = 1 \/ s[p - 1] \in {"\n", "\r"}) /\ MatchAt(s, Fence, q)
               /\ e # 0
            THEN [ok |-> TRUE, lang |-> ToLower(Trim(Sub(s, q + 3, b))),
                  content |-> Trim(Sub(s, c, e - 1)), next |-> e + 3]
            ELSE [ok |-> FALSE, lang |-> << >>, content |-> << >>, next |-> 0]
        Body(q, b, c) ==
            Match(q, b, c,
                  IF IndexOf(s, Fence, c) = 0 THEN 0
                  ELSE Max({e \in c..Len(s) : MatchAt(s, Fence, e)}))
        Tag(q, b) == Body(q, b, SkipWs(s, b + 1))
        Opening(q) ==
            Tag(q, Min({j \in (q + 2)..Len(s) :
                          j = Len(s) \/ ~IsWordChar(s[j + 1])}))
    IN  Opening(SkipWs(s, p))

\* ^ of a regular expression with the m flag
IsLineStart(s, p) == p = 1 \/ s[p - 1] \in {"\n", "\r"}

\* whether /^(\s*)```(\w*)\s*\n?([\s\S]*?)```/ matches at position p, and
\* the match: q the opening fence, b the end of the tag, c the start of the
\* body, e the closing fence
FenceMatch(s, p) ==
    LET Match(q, b, c, e) ==
            IF IsLineStart(s, p) /\ MatchAt(s, Fence, q) /\ e # 0
            THEN [ok |-> TRUE, lang |-> ToLower(Trim(Sub(s, q + 3, b))),
                  content |-> Trim(Sub(s, c, e - 1)), next |-> e + 3]
            ELSE [ok |-> FALSE, lang |-> << >>, content |-> << >>, next |-> 0]
        Body(q, b, c) == Match(q, b, c, IndexOf(s, Fence, c))
        Tag(q, b) == Body(q, b, SkipWs(s, b + 1))
        Opening(q) ==
            Tag(q, Min({j \in (q + 2)..Len(s) :
                          j = Len(s) \/ ~IsWordChar(s[j + 1])}))
    IN  Opening(SkipWs(s, p))

\* the matches codeBlockRegex.exec finds from position from on
RECURSIVE CodeBlocks(_, _)
CodeBlocks(s, from) ==
    LET Block(m) ==
            << [lang |-> m.lang, content |-> m.content] >>
              \o CodeBlocks(s, m.next)
        First(starts) ==
            IF starts = {} THEN << >> ELSE Block(FenceMatch(s, Min(starts)))
    IN  First({p \in from..Len(s) : FenceMatch(s, p).ok})

IsJsonBlock(m) ==
    \/ m.lang = << "j", "s", "o", "n" >>
    \/ m.lang = << >>
    \/ m.lang = << "j", "a", "v", "a", "s", "c", "r", "i", "p", "t" >>
    \/ m.lang = << "j", "s" >>
    \/ looksLikeJson(m.content)

\* the loop over the blocks: [results, repairs, ran]
RECURSIVE ParseBlocks(_, _, _, _)
ParseBlocks(blocks, options, isDone, depth) ==
    LET Block(rest, parsed, fixed) ==
            IF parsed.ok
            THEN [rest EXCEPT !.results = << parsed.val >> \o @]
            ELSE IF fixed.kind = "result"
            THEN [results |-> << fixed.value >> \o rest.results,
                  repairs |-> fixed.repairs \cup rest.repairs,
                  ran |-> fixed.ran \cup rest.ran]
            ELSE [rest EXCEPT !.ran = fixed.ran \cup @]
    IN  IF Len(blocks) = 0
        THEN [results |-> << >>, repairs |-> {}, ran |-> {}]
        ELSE Block(ParseBlocks(Tail(blocks), options, isDone, depth),
                   JsonParse(blocks[1].content),
                   tryFixJson(blocks[1].content, options, isDone, depth))

\* the candidates /\{[\s\S]*?\}|\[[\s\S]*?\]/g finds from position from on
CandidateEnd(s, i) ==
    IF s[i] = LBRACE THEN IndexOf(s, << RBRACE >>, i + 1)
    ELSE IF s[i] = LBRACK THEN IndexOf(s, << RBRACK >>, i + 1)
    ELSE 0

RECURSIVE Candidates(_, _)
Candidates(s, from) ==
    LET Candidate(i, j) == << Sub(s, i, j) >> \o Candidates(s, j + 1)
        From(i) == Candidate(i, CandidateEnd(s, i))
        First(starts) == IF starts = {} THEN << >> ELSE From(Min(starts))
    IN  First({i \in from..Len(s) : CandidateEnd(s, i) # 0})

\* the loop over the candidates: [objects, repairs]
RECURSIVE ParseCandidates(_)
ParseCandidates(cands) ==
    LET Candidate(rest, parsed, fixed) ==
            IF parsed.ok
            THEN [rest EXCEPT !.objects = << parsed.val >> \o @]
            ELSE IF fixed.ok
            THEN [objects |-> << fixed.val >> \o rest.objects,
                  repairs |-> {"rewrite"} \cup rest.repairs,
                  ran |-> {"applyJsonFixes"} \cup rest.ran]
            ELSE [rest EXCEPT !.ran = {"applyJsonFixes"} \cup @]
    IN  IF Len(cands) = 0
        THEN [objects |-> << >>, repairs |-> {}, ran |-> {}]
        ELSE Candidate(ParseCandidates(Tail(cands)), JsonParse(cands[1]),
                       JsonParse(applyJsonFixes(cands[1])))

tryExtractMultipleJson(text, options, isDone, depth) ==
    LET Objects(r, ran) ==
            IF Len(r.objects) = 0 THEN NoResult(ran)
            ELSE IF Len(r.objects) = 1
            THEN Result(r.objects[1], text, FALSE, << >>, ~isDone, "multi",
                        r.repairs, ran)
            ELSE Result(Arr(r.objects), text, FALSE, << >>, ~isDone, "multi",
                        r.repairs, ran)
        Found(r) == Objects(r, {"tryExtractMultipleJson"} \cup r.ran)
    IN  Found(ParseCandidates(Candidates(text, 1)))

RECURSIVE extractJson(_, _, _, _), tryExtractFromMarkdown(_, _, _, _)
RECURSIVE MarkdownBlocks(_, _, _, _, _)

tryExtractFromMarkdown(text, options, isDone, depth) ==
    MarkdownBlocks(text, CodeBlocks(text, 1), options, isDone, depth)

\* tryExtractFromMarkdown from the matches of codeBlockRegex on
MarkdownBlocks(text, matches, options, isDone, depth) ==
    LET ran0 == {"tryExtractFromMarkdown"}
        Blocks(jsonBlocks, single, loop, ran) ==
            IF Len(matches) = 0 THEN NoResult(ran0)
            ELSE IF Len(jsonBlocks) = 0 THEN NoResult(ran0)
            ELSE IF Len(jsonBlocks) = 1 /\ single.kind = "result"
            THEN [single EXCEPT !.fromMarkdown = TRUE, !.via = "markdown",
                                !.ran = ran0 \cup @]
            ELSE IF Len(loop.results) = 1
            THEN Result(loop.results[1], text, TRUE, << >>, ~isDone,
                        "markdown", loop.repairs, ran)
            ELSE IF Len(loop.results) > 1
            THEN Result(Arr(loop.results), text, TRUE, << >>, ~isDone,
                        "markdown", loop.repairs, ran)
            ELSE NoResult(ran)
        Tried(jsonBlocks, single, loop) ==
            Blocks(jsonBlocks, single, loop,
                   ran0 \cup loop.ran
                     \cup (IF Len(jsonBlocks) = 1 THEN single.ran ELSE {}))
    IN  Tried(SelectSeq(matches, IsJsonBlock),
              extractJson(SelectSeq(matches, IsJsonBlock)[1].content, options,
                          isDone, depth),
              ParseBlocks(SelectSeq(matches, IsJsonBlock), options, isDone,
                          depth))

\* a variant of stringFallback that returns the text after normalization
stringFallbackOfWorkingText(originalText, workingText, fixes, isDone, ran) ==
    Result(Str(workingText), workingText, FALSE, fixes, ~isDone,
           "string", {}, ran \cup {"stringFallback"})

\* the last resort of extractJson: the input as a string
stringFallback(originalText, workingText, fixes, isDone, ran) ==
    Result(Str(originalText), originalText, FALSE, fixes, ~isDone,
           "string", {}, ran \cup {"stringFallback"})

extractJson(text, options, isDone, depth) ==
    LET opts == options @@ DefaultExtractionOptions
        originalText == text
        changed ==
            opts.normalizeUnicodeQuotes /\ normalizeUnicodeQuotes(text) # text
        preprocessingFixes ==
            IF changed THEN << "normalized_unicode_quotes" >> ELSE << >>
        workingText == IF changed THEN normalizeUnicodeQuotes(text) ELSE text
        Return(result, ran) ==
            withPreprocessingFixes([result EXCEPT !.ran = ran],
                                   preprocessingFixes, originalText)
        Ladder(directResult, markdownResult, multiResult, fixedResult,
               ran1, ran2, ran3, ran4) ==
            IF depth > opts.maxDepth THEN Thrown({})
            ELSE IF directResult.kind = "result"
            THEN Return(directResult, ran1)
            ELSE IF markdownResult.kind = "result"
            THEN Return(markdownResult, ran2)
            ELSE IF multiResult.kind = "result"
            THEN Return(multiResult, ran3)
            ELSE IF fixedResult.kind = "result"
            THEN Return(fixedResult, ran4)
            ELSE IF opts.allowAsString
            THEN stringFallback(originalText, workingText, preprocessingFixes,
                                isDone, ran4)
            ELSE Thrown(ran4)
        Strategies(directResult, markdownResult, multiResult, fixedResult) ==
            Ladder(directResult, markdownResult, multiResult, fixedResult,
                   directResult.ran,
                   directResult.ran \cup markdownResult.ran,
                   directResult.ran \cup markdownResult.ran
                     \cup multiResult.ran,
                   directResult.ran \cup markdownResult.ran
                     \cup multiResult.ran \cup fixedResult.ran)
    IN  Strategies(tryParseDirect(workingText, isDone),
                   IF opts.allowMarkdownJson
                   THEN tryExtractFromMarkdown(workingText, opts, isDone,
                                               depth + 1)
                   ELSE NoResult({}),
                   IF opts.findAllJsonObjects
                   THEN tryExtractMultipleJson(workingText, opts, isDone,
                                               depth + 1)
                   ELSE NoResult({}),
                   IF opts.allowFixes
                   THEN tryFixJson(workingText, opts, isDone, depth + 1)
                   ELSE NoResult({}))

----------------------------------------------------------------------------
(* Conversions the coercer uses *)

RECURSIVE NatToChars(_)
NatToChars(n) ==
    IF n < 10 THEN << DigitChar(n) >>
    ELSE Append(NatToChars(n \div 10), DigitChar(n % 10))

\* String(n) of an integer
IntToChars(n) == IF n < 0 THEN << "-" >> \o NatToChars(0 - n) ELSE NatToChars(n)

\* items joined by the separator sep
RECURSIVE Join(_, _)
Join(items, sep) ==
    IF Len(items) = 0 THEN << >>
    ELSE IF Len(items) = 1 THEN items[1]
    ELSE items[1] \o sep \o Join(Tail(items), sep)

\* String(x)
RECURSIVE JsString(_)
JsString(x) ==
    CASE x.t = "null" -> << "n", "u", "l", "l" >>
      [] x.t = "undefined" -> << "u", "n", "d", "e", "f", "i", "n", "e", "d" >>
      [] x.t = "boolean" -> IF x.v THEN << "t", "r", "u", "e" >>
                            ELSE << "f", "a", "l", "s", "e" >>
      [] x.t = "number" -> IntToChars(x.v)
      [] x.t = "string" -> x.v
      [] x.t = "array" ->
            Join([i \in 1..Len(x.v) |->
                    IF IsNullish(x.v[i]) THEN << >> ELSE JsString(x.v[i])],
                 << COMMA >>)
      [] OTHER -> << "[", "o", "b", "j", "e", "c", "t", " ",
                     "O", "b", "j", "e", "c", "t", "]" >>

\* a string as JSON.stringify quotes it
Quoted(cs) ==
    << DQUOTE >>
      \o Join([i \in 1..Len(cs) |->
                 IF cs[i] = DQUOTE \/ cs[i] = "\\" THEN << "\\", cs[i] >>
                 ELSE << cs[i] >>], << >>)
      \o << DQUOTE >>

\* JSON.stringify(x) of a value that is not undefined
RECURSIVE JsonStringify(_)
JsonStringify(x) ==
    CASE x.t = "string" -> Quoted(x.v)
      [] x.t = "array" ->
            << LBRACK >>
              \o Join([i \in 1..Len(x.v) |->
                         IF x.v[i].t = "undefined" THEN << "n", "u", "l", "l" >>
                         ELSE JsonStringify(x.v[i])], << COMMA >>)
              \o << RBRACK >>
      [] x.t = "object" ->
            LET kept == SelectSeq(x.v, LAMBDA e : e.v.t # "undefined")
            IN  << LBRACE >>
                  \o Join([i \in 1..Len(kept) |->
                             Quoted(kept[i].k) \o << COLON >>
                               \o JsonStringify(kept[i].v)], << COMMA >>)
                  \o << RBRACE >>
      [] OTHER -> JsString(x)

\* parseInt(cs, 10) and, on the model's texts (no ".", no exponent),
\* parseFloat(cs): [nan, n]
ParseIntPrefix(cs) ==
    LET Number(negative, b) ==
            IF b > Len(cs) \/ ~IsDigit(cs[b]) THEN [nan |-> TRUE, n |-> 0]
            ELSE LET Value(n) ==
                         [nan |-> FALSE, n |-> IF negative THEN 0 - n ELSE n]
                 IN  Value(DecimalValue(
                         Sub(cs, b, Min({j \in b..Len(cs) :
                                           j = Len(cs) \/ ~IsDigit(cs[j + 1])}))))
        Sign(a, signed) ==
            Number(signed /\ cs[a] = "-", IF signed THEN a + 1 ELSE a)
        Start(a) == Sign(a, a <= Len(cs) /\ cs[a] \in {"-", "+"})
    IN  Start(SkipWs(cs, 1))

\* a === b
StrictEq(a, b) ==
    /\ a.t = b.t
    /\ a.t \notin {"array", "object"}
    /\ a.v = b.v

\* typeof x
TypeOf(x) ==
    CASE x.t \in {"null", "array", "object"} -> "object"
      [] OTHER -> x.t

----------------------------------------------------------------------------
(* Schemas.  A schema node is a record holding the fields the node has, as
   the TypeBox object does: kind for schema[Kind], ref for $ref, and
   properties as the sequence of its entries [k, s].  An additionalProperties
   that is a schema is the field additionalPropertiesSchema. *)

Has(schema, f) == f \in DOMAIN schema

KindOf(schema) == IF Has(schema, "kind") THEN schema.kind ELSE ""

JsonTypeOf(schema) == IF Has(schema, "type") THEN schema.type ELSE ""

\* CoercionOptions after the merge with defaultOptions
DefaultCoercionOptions ==
    [allowPartials |-> FALSE, useDefaults |-> TRUE, strict |-> FALSE,
     maxDepth |-> 50, trackCoercions |-> FALSE]

\* what a coercion step returns: the value, the messages it passed to
\* addError and the notes it passed to addCoercion, in order; a message or
\* a note is the fixed part of the template the source fills in
Step(value, errs, notes) == [value |-> value, errs |-> errs, notes |-> notes]

Note(what, path) == [note |-> what, at |-> path]

isNullable(schema) ==
    IF Has(schema, "anyOf")
    THEN \E i \in 1..Len(schema.anyOf) :
            KindOf(schema.anyOf[i]) = "Null" \/ JsonTypeOf(schema.anyOf[i]) = "null"
    ELSE FALSE

isOptionalProperty(schema) ==
    IF KindOf(schema) = "Optional" THEN TRUE
    ELSE IF Has(schema, "anyOf")
    THEN \E i \in 1..Len(schema.anyOf) :
            \/ KindOf(schema.anyOf[i]) = "Null"
            \/ JsonTypeOf(schema.anyOf[i]) = "null"
            \/ JsonTypeOf(schema.anyOf[i]) = "undefined"
    ELSE FALSE

RECURSIVE canHandleValue(_, _)
canHandleValue(value, schema) ==
    IF KindOf(schema) = "Any" \/ KindOf(schema) = "Unknown" THEN TRUE
    ELSE IF IsNullish(value)
    THEN KindOf(schema) = "Null" \/ KindOf(schema) = "Optional" \/ isNullable(schema)
    ELSE CASE KindOf(schema) = "String" -> value.t = "string"
           [] KindOf(schema) = "Number" -> value.t = "number"
           [] KindOf(schema) = "Integer" -> value.t = "number"
           [] KindOf(schema) = "Boolean" -> value.t = "boolean"
           [] KindOf(schema) = "Object" -> value.t = "object"
           [] KindOf(schema) = "Array" -> value.t = "array"
           [] KindOf(schema) = "Literal" -> StrictEq(value, schema.const)
           [] KindOf(schema) = "Enum" ->
                \E i \in 1..Len(schema.enum) : StrictEq(schema.enum[i], value)
           [] KindOf(schema) = "Union" ->
                \E i \in 1..Len(schema.anyOf) : canHandleValue(value, schema.anyOf[i])
           [] OTHER -> TRUE

coerceLiteral(value, schema) ==
    LET expected == schema.const
    IN  IF StrictEq(value, expected) THEN Step(value, << >>, << >>)
        ELSE IF JsString(value) = JsString(expected)
        THEN Step(expected, << >>, << >>)
        ELSE Step(value, << "Expected literal" >>, << >>)

coerceEnum(value, schema, path) ==
    LET allowed == schema.enum
        matches == {i \in 1..Len(allowed) :
                      /\ allowed[i].t = "string"
                      /\ value.t = "string"
                      /\ ToLower(allowed[i].v) = ToLower(value.v)}
    IN  IF \E i \in 1..Len(allowed) : StrictEq(allowed[i], value)
        THEN Step(value, << >>, << >>)
        ELSE IF matches # {}
        THEN Step(allowed[Min(matches)], << >>,
                  << Note("case-insensitive enum match", path) >>)
        ELSE Step(value, << "Expected one of" >>, << >>)

\* new RegExp(pattern).test(value), for the patterns the model's schemas use
PatternTest(pattern, cs) ==
    CASE pattern = "^[0-9]+$" -> Len(cs) >= 1 /\ \A i \in 1..Len(cs) : IsDigit(cs[i])
      [] pattern = "^[a-z]+$" ->
            Len(cs) >= 1 /\ \A i \in 1..Len(cs) : cs[i] \in LowerLetters

coerceString(value, schema, path) ==
    IF value.t = "string"
    THEN Step(value,
              (IF Has(schema, "minLength") /\ Len(value.v) < schema.minLength
               THEN << "String too short" >> ELSE << >>)
                \o (IF Has(schema, "maxLength") /\ Len(value.v) > schema.maxLength
                    THEN << "String too long" >> ELSE << >>)
                \o (IF Has(schema, "pattern") /\ ~PatternTest(schema.pattern, value.v)
                    THEN << "String does not match pattern" >> ELSE << >>),
              << >>)
    ELSE LET notes == << Note("coerced to string", path) >>
         IN  IF value.t = "number" \/ value.t = "boolean"
             THEN Step(Str(JsString(value)), << >>, notes)
             ELSE IF value.t = "null"
             THEN Step(Str(<< "n", "u", "l", "l" >>), << >>, notes)
             ELSE IF TypeOf(value) = "object"
             THEN Step(Str(JsonStringify(value)), << >>, notes)
             ELSE Step(Str(JsString(value)), << >>, notes)

Abs(n) == IF n < 0 THEN 0 - n ELSE n

\* the messages validateNumber passes to addError
validateNumber(num, schema) ==
    (IF Has(schema, "minimum") /\ num < schema.minimum
     THEN << "Number below minimum" >> ELSE << >>)
      \o (IF Has(schema, "maximum") /\ num > schema.maximum
          THEN << "Number above maximum" >> ELSE << >>)
      \o (IF Has(schema, "exclusiveMinimum") /\ num <= schema.exclusiveMinimum
          THEN << "Number not above exclusive minimum" >> ELSE << >>)
      \o (IF Has(schema, "exclusiveMaximum") /\ num >= schema.exclusiveMaximum
          THEN << "Number not below exclusive maximum" >> ELSE << >>)
      \o (IF Has(schema, "multipleOf")
             /\ (schema.multipleOf = 0
                 \/ Abs(num) % Abs(schema.multipleOf) # 0)
          THEN << "Number not multiple of" >> ELSE << >>)

coerceNumber(value, schema, path) ==
    LET isInt == KindOf(schema) = "Integer" \/ JsonTypeOf(schema) = "integer"
        Validated(num, notes) == Step(Num(num), validateNumber(num, schema), notes)
        Coerced(parsed) ==
            IF value.t = "number"
            THEN Step(value, validateNumber(value.v, schema), << >>)
            ELSE IF value.t = "string" /\ ~parsed.nan
            THEN Validated(parsed.n, << Note("parsed string to number", path) >>)
            ELSE IF value.t = "boolean"
            THEN Validated(IF value.v THEN 1 ELSE 0,
                           << Note("converted boolean to number", path) >>)
            ELSE Step(value,
                      << IF isInt THEN "Cannot coerce to integer"
                         ELSE "Cannot coerce to number" >>, << >>)
    IN  Coerced(ParseIntPrefix(value.v))

coerceBoolean(value) ==
    LET Coerced(lower) ==
            IF value.t = "boolean" THEN Step(value, << >>, << >>)
            ELSE IF value.t = "string"
                    /\ lower \in {<< "t", "r", "u", "e" >>, << "1" >>,
                                  << "y", "e", "s" >>}
            THEN Step(Bool(TRUE), << >>, << >>)
            ELSE IF value.t = "string"
                    /\ lower \in {<< "f", "a", "l", "s", "e" >>, << "0" >>,
                                  << "n", "o" >>, << >>}
            THEN Step(Bool(FALSE), << >>, << >>)
            ELSE IF value.t = "number" THEN Step(Bool(value.v # 0), << >>, << >>)
            ELSE Step(value, << "Cannot coerce to boolean" >>, << >>)
    IN  Coerced(ToLower(value.v))

coerceNull(value, schema, options, path) ==
    IF IsNullish(value) THEN Step(Null, << >>, << >>)
    ELSE IF options.allowPartials THEN Step(Null, << >>, << >>)
    ELSE Step(Null, << >>, << Note("coerced to null", path) >>)

\* Type.Object(properties) of TypeBox, as coerceIntersect uses it: every
\* property that is not Optional is required
TypeObject(properties) ==
    LET req == SelectSeq([i \in 1..Len(properties) |-> properties[i].k],
                         LAMBDA k : KindOf(GetKey([j \in 1..Len(properties) |->
                                        [k |-> properties[j].k,
                                         v |-> properties[j].s]], k)) # "Optional")
    IN  [kind |-> "Object", type |-> "object", properties |-> properties,
         required |-> req]

\* Object.assign(merged, props) for every Object sub-schema, in order
RECURSIVE MergeProperties(_, _)
MergeProperties(allOf, merged) ==
    IF Len(allOf) = 0 THEN merged
    ELSE LET sub == allOf[1]
             props == IF KindOf(sub) = "Object" THEN sub.properties ELSE << >>
             step[n \in 0..Len(props)] ==
                 IF n = 0 THEN merged
                 ELSE SetKey(step[n - 1], props[n].k, props[n].s)
         IN  MergeProperties(Tail(allOf), step[Len(props)])

\* an array as the object coerceObject makes of it: keys "0", "1", ...
ArrayAsEntries(items) ==
    [i \in 1..Len(items) |-> [k |-> IntToChars(i - 1), v |-> items[i]]]

FieldPath(path, key) == IF Len(path) > 0 THEN path \o << "." >> \o key ELSE key

IndexPath(path, i) == path \o << LBRACK >> \o IntToChars(i) \o << RBRACK >>

KeyPath(path, key) == path \o << LBRACK >> \o key \o << RBRACK >>

RECURSIVE coerceInternal(_, _, _, _, _)
RECURSIVE coerceObject(_, _, _, _, _)
RECURSIVE coerceArray(_, _, _, _, _)
RECURSIVE coerceUnion(_, _, _, _, _)
RECURSIVE coerceIntersect(_, _, _, _, _)
RECURSIVE coerceOptional(_, _, _, _, _)
RECURSIVE coerceRecord(_, _, _, _, _)
RECURSIVE coerceTuple(_, _, _, _, _)
RECURSIVE coerceJsonSchemaType(_, _, _, _, _)
RECURSIVE DeclaredFields(_, _, _, _, _, _, _)
RECURSIVE AdditionalFields(_, _, _, _, _, _, _)
RECURSIVE UnionVariants(_, _, _, _, _, _, _)

\* the loop of coerceObject over the declared properties from the n-th on;
\* acc is the result object with the errors and notes so far
DeclaredFields(n, entries, schema, options, path, depth, acc) ==
    LET required == IF Has(schema, "required") THEN schema.required ELSE << >>
        Field(key, propSchema, fieldPath, fieldValue, isRequired) ==
            LET Coerced(sub) ==
                    Step(SetKey(acc.value, key, sub.value),
                         acc.errs \o sub.errs, acc.notes \o sub.notes)
            IN  IF fieldValue.t = "undefined"
                THEN IF options.useDefaults /\ Has(propSchema, "default")
                     THEN Step(SetKey(acc.value, key, propSchema.default),
                               acc.errs,
                               Append(acc.notes, Note("used default", fieldPath)))
                     ELSE IF ~isRequired \/ isOptionalProperty(propSchema)
                     THEN acc
                     ELSE IF options.allowPartials
                     THEN Step(SetKey(acc.value, key, Undefined), acc.errs,
                               acc.notes)
                     ELSE Step(SetKey(acc.value, key, Undefined),
                               Append(acc.errs, "Missing required field"),
                               acc.notes)
                ELSE Coerced(coerceInternal(fieldValue, propSchema, options,
                                            fieldPath, depth + 1))
        Property(key, propSchema) ==
            Field(key, propSchema, FieldPath(path, key), GetKey(entries, key),
                  \E i \in 1..Len(required) : required[i] = key)
    IN  IF n > Len(schema.properties) THEN acc
        ELSE DeclaredFields(n + 1, entries, schema, options, path, depth,
                            Property(schema.properties[n].k,
                                     schema.properties[n].s))

\* the loop of coerceObject over the entries of the value from the n-th on
AdditionalFields(n, entries, schema, options, path, depth, acc) ==
    LET Field(key, fieldValue, declared) ==
            LET Coerced(sub) ==
                    Step(SetKey(acc.value, key, sub.value),
                         acc.errs \o sub.errs, acc.notes \o sub.notes)
            IN  IF declared THEN acc
                ELSE IF Has(schema, "additionalPropertiesSchema")
                THEN Coerced(coerceInternal(fieldValue,
                                            schema.additionalPropertiesSchema,
                                            options, FieldPath(path, key),
                                            depth + 1))
                ELSE IF ~Has(schema, "additionalProperties")
                        \/ schema.additionalProperties
                THEN Step(SetKey(acc.value, key, fieldValue), acc.errs,
                          acc.notes)
                ELSE acc
        Entry(key, fieldValue) ==
            Field(key, fieldValue, In(key, schema.properties))
    IN  IF n > Len(entries) THEN acc
        ELSE AdditionalFields(n + 1, entries, schema, options, path, depth,
                              Entry(entries[n].k, entries[n].v))

coerceObject(value, schema, options, path, depth) ==
    LET Noted(what, sub) ==
            Step(sub.value, sub.errs, << Note(what, path) >> \o sub.notes)
        Coerced(viaArray, parsed, viaString, all) ==
            IF value.t = "array"
            THEN Noted("converted array to object with index keys", viaArray)
            ELSE IF value.t = "string" /\ parsed.ok
                    /\ TypeOf(parsed.val) = "object" /\ parsed.val.t # "null"
            THEN Noted("parsed string to object", viaString)
            ELSE IF value.t # "object"
            THEN Step(value, << "Expected object" >>, << >>)
            ELSE IF ~Has(schema, "properties") THEN Step(value, << >>, << >>)
            ELSE Step(Obj(all.value), all.errs, all.notes)
    IN  Coerced(coerceObject(Obj(ArrayAsEntries(value.v)), schema, options,
                             path, depth),
                JsonParse(value.v),
                coerceObject(JsonParse(value.v).val, schema, options, path,
                             depth),
                AdditionalFields(1, value.v, schema, options, path, depth,
                    DeclaredFields(1, value.v, schema, options, path, depth,
                                   Step(<< >>, << >>, << >>))))

coerceArray(value, schema, options, path, depth) ==
    LET items == schema.items
        Wrapped(single) ==
            Step(Arr(<< single.value >>), single.errs,
                 << Note("wrapped single value in array", path) >>
                   \o single.notes)
        Item(before, sub) ==
            Step(Append(before.value, sub.value), before.errs \o sub.errs,
                 before.notes \o sub.notes)
        each[n \in 0..(IF value.t = "array" THEN Len(value.v) ELSE 0)] ==
            IF n = 0 THEN Step(<< >>, << >>, << >>)
            ELSE Item(each[n - 1],
                      coerceInternal(value.v[n], items, options,
                                     IndexPath(path, n - 1), depth + 1))
        Items(all) == Step(Arr(all.value), all.errs, all.notes)
    IN  IF value.t # "array"
        THEN Wrapped(coerceInternal(value, items, options, IndexPath(path, 0),
                                    depth + 1))
        ELSE Items(each[Len(value.v)])

\* the loop of coerceUnion over the variants from the n-th on; best is
\* bestResult: [has, value, errors]
UnionVariants(n, value, schema, options, path, depth, best) ==
    LET Forced(forced) ==
            Step(forced.value, forced.errs,
                 Append(forced.notes, Note("forced union variant", path)))
        Tried(variant, result) ==
            IF ~canHandleValue(value, variant) THEN best
            ELSE IF ~best.has \/ Len(result.errs) < best.errors
            THEN [has |-> TRUE, value |-> result.value,
                  errors |-> Len(result.errs)]
            ELSE best
        Variant(variant, result) ==
            IF canHandleValue(value, variant) /\ Len(result.errs) = 0
            THEN Step(result.value, << >>, result.notes)
            ELSE UnionVariants(n + 1, value, schema, options, path, depth,
                               Tried(variant, result))
    IN  IF n > Len(schema.anyOf)
        THEN IF best.has
             THEN Step(best.value, << >>,
                       << Note("selected union variant with errors", path) >>)
             ELSE IF Len(schema.anyOf) > 0
             THEN Forced(coerceInternal(value, schema.anyOf[1], options, path,
                                        depth))
             ELSE Step(value, << "No matching variant in union" >>, << >>)
        ELSE Variant(schema.anyOf[n],
                     coerceInternal(value, schema.anyOf[n], options, path, depth))

Reverse(s) == [i \in 1..Len(s) |-> s[Len(s) + 1 - i]]

\* a variant of coerceUnion that tries the alternatives last to first
coerceUnionLastFirst(value, schema, options, path, depth) ==
    UnionVariants(1, value, [schema EXCEPT !.anyOf = Reverse(@)], options,
                  path, depth, [has |-> FALSE, value |-> Null, errors |-> 0])

coerceUnion(value, schema, options, path, depth) ==
    UnionVariants(1, value, schema, options, path, depth,
                  [has |-> FALSE, value |-> Null, errors |-> 0])

coerceIntersect(value, schema, options, path, depth) ==
    LET Merged(merged) ==
            TypeObject([i \in 1..Len(merged) |->
                          [k |-> merged[i].k, s |-> merged[i].v]])
    IN  IF ~Has(schema, "allOf") \/ Len(schema.allOf) = 0
        THEN Step(value, << >>, << >>)
        ELSE coerceObject(value, Merged(MergeProperties(schema.allOf, << >>)),
                          options, path, depth)

coerceOptional(value, schema, options, path, depth) ==
    IF IsNullish(value) THEN Step(Undefined, << >>, << >>)
    ELSE coerceInternal(value, schema.item, options, path, depth)

coerceRecord(value, schema, options, path, depth) ==
    LET valueSchema ==
            IF Has(schema, "patternProperties") /\ Len(schema.patternProperties) > 0
            THEN schema.patternProperties[1].s
            ELSE IF Has(schema, "additionalPropertiesSchema")
            THEN schema.additionalPropertiesSchema
            ELSE [kind |-> "Any"]
        Entry(before, key, sub) ==
            Step(SetKey(before.value, key, sub.value), before.errs \o sub.errs,
                 before.notes \o sub.notes)
        each[n \in 0..(IF value.t = "object" THEN Len(value.v) ELSE 0)] ==
            IF n = 0 THEN Step(<< >>, << >>, << >>)
            ELSE Entry(each[n - 1], value.v[n].k,
                       coerceInternal(value.v[n].v, valueSchema, options,
                                      KeyPath(path, value.v[n].k), depth + 1))
        Entries(all) == Step(Obj(all.value), all.errs, all.notes)
    IN  IF value.t # "object"
        THEN Step(value, << "Expected record object" >>, << >>)
        ELSE Entries(each[Len(value.v)])

coerceTuple(value, schema, options, path, depth) ==
    LET items == schema.items
        Item(before, sub) ==
            Step(Append(before.value, sub.value), before.errs \o sub.errs,
                 before.notes \o sub.notes)
        Missing(before, n) ==
            IF Has(items[n], "default")
            THEN Step(Append(before.value, items[n].default), before.errs,
                      before.notes)
            ELSE Step(Append(before.value, Undefined),
                      Append(before.errs, "Missing tuple element"),
                      before.notes)
        each[n \in 0..Len(items)] ==
            IF n = 0 THEN Step(<< >>, << >>, << >>)
            ELSE IF n <= Len(value.v)
            THEN Item(each[n - 1],
                      coerceInternal(value.v[n], items[n], options,
                                     IndexPath(path, n - 1), depth + 1))
            ELSE Missing(each[n - 1], n)
        extra == IF Has(schema, "additionalItems") /\ ~schema.additionalItems
                 THEN << >>
                 ELSE Sub(value.v, Len(items) + 1, Len(value.v))
        Elements(declared) ==
            Step(Arr(declared.value \o extra), declared.errs, declared.notes)
    IN  IF value.t # "array"
        THEN Step(value, << "Expected tuple array" >>, << >>)
        ELSE Elements(each[Len(items)])

coerceJsonSchemaType(value, schema, options, path, depth) ==
    CASE schema.type = "string" -> coerceString(value, schema, path)
      [] schema.type = "number" -> coerceNumber(value, schema, path)
      [] schema.type = "integer" -> coerceNumber(value, schema, path)
      [] schema.type = "boolean" -> coerceBoolean(value)
      [] schema.type = "null" -> coerceNull(value, schema, options, path)
      [] schema.type = "array" ->
            IF Has(schema, "items")
            THEN coerceArray(value, schema, options, path, depth)
            ELSE Step(IF value.t = "array" THEN value ELSE Arr(<< value >>),
                      << >>, << >>)
      [] schema.type = "object" ->
            IF Has(schema, "properties")
            THEN coerceObject(value, schema, options, path, depth)
            ELSE Step(IF TypeOf(value) = "object" THEN value ELSE Obj(<< >>),
                      << >>, << >>)
      [] OTHER -> Step(value, << >>, << >>)

coerceInternal(value, schema, options, path, depth) ==
    IF depth > options.maxDepth
    THEN Step(value, << "Maximum depth exceeded" >>, << >>)
    ELSE IF IsNullish(value) THEN coerceNull(value, schema, options, path)
    ELSE IF Has(schema, "ref")
    THEN Step(value, << >>, << Note("unresolved reference", << >>) >>)
    ELSE CASE KindOf(schema) = "Object" ->
                coerceObject(value, schema, options, path, depth)
           [] KindOf(schema) = "Array" ->
                coerceArray(value, schema, options, path, depth)
           [] KindOf(schema) = "Union" ->
                coerceUnion(value, schema, options, path, depth)
           [] KindOf(schema) = "Intersect" ->
                coerceIntersect(value, schema, options, path, depth)
           [] KindOf(schema) = "Optional" ->
                coerceOptional(value, schema, options, path, depth)
           [] KindOf(schema) = "Literal" -> coerceLiteral(value, schema)
           [] KindOf(schema) = "Enum" -> coerceEnum(value, schema, path)
           [] KindOf(schema) = "String" -> coerceString(value, schema, path)
           [] KindOf(schema) \in {"Number", "Integer"} ->
                coerceNumber(value, schema, path)
           [] KindOf(schema) = "Boolean" -> coerceBoolean(value)
           [] KindOf(schema) = "Null" -> coerceNull(value, schema, options, path)
           [] KindOf(schema) \in {"Any", "Unknown"} -> Step(value, << >>, << >>)
           [] KindOf(schema) = "Record" ->
                coerceRecord(value, schema, options, path, depth)
           [] KindOf(schema) = "Tuple" ->
                coerceTuple(value, schema, options, path, depth)
           [] KindOf(schema) = "Ref" ->
                Step(value, << >>, << Note("reference coercion", << >>) >>)
           [] Has(schema, "type") ->
                coerceJsonSchemaType(value, schema, options, path, depth)

isComplete(value, schema) ==
    LET required == IF Has(schema, "required") THEN schema.required ELSE << >>
        missing == \E i \in 1..Len(schema.properties) :
                      /\ \E j \in 1..Len(required) :
                            required[j] = schema.properties[i].k
                      /\ IF value.t = "array"
                         THEN ~HasKey(ArrayAsEntries(value.v), schema.properties[i].k)
                         ELSE ~HasKey(value.v, schema.properties[i].k)
    IN  IF KindOf(schema) = "Object" /\ (TypeOf(value) # "object" \/ value.t = "null")
        THEN FALSE
        ELSE IF KindOf(schema) = "Object" /\ missing THEN FALSE
        ELSE IF KindOf(schema) = "Array"
        THEN value.t = "array" /\ Len(value.v) > 0
        ELSE ~IsNullish(value)

\* a variant of coerceValue that reports success whatever the errors
coerceValueAlwaysSuccess(value, schema, options, path) ==
    LET opts == options @@ DefaultCoercionOptions
        Coerced(result) ==
            [value |-> result.value,
             success |-> TRUE,
             errors |-> [i \in 1..Len(result.errs) |->
                           [path |-> path, message |-> result.errs[i]]],
             coercions |-> IF opts.trackCoercions THEN result.notes ELSE << >>,
             isPartial |-> opts.allowPartials /\ ~isComplete(value, schema)]
    IN  Coerced(coerceInternal(value, schema, opts, path, 0))

\* a CoercionResult; options holds the fields the caller gave, and addError
\* gives every error the path coerceValue was called with
coerceValue(value, schema, options, path) ==
    LET opts == options @@ DefaultCoercionOptions
        Coerced(result) ==
            [value |-> result.value,
             success |-> Len(result.errs) = 0,
             errors |-> [i \in 1..Len(result.errs) |->
                           [path |-> path, message |-> result.errs[i]]],
             coercions |-> IF opts.trackCoercions THEN result.notes ELSE << >>,
             isPartial |-> opts.allowPartials /\ ~isComplete(value, schema)]
    IN  Coerced(coerceInternal(value, schema, opts, path, 0))

----------------------------------------------------------------------------
(* Chain-of-thought filter.  The patterns are matched on the lower-cased
   text where the regular expression carries the i flag. *)

\* the first position of phrase (any letter case) when the character c
\* follows it somewhere, or 0: the match of /phrase[\s\S]*?c/i
PhraseThen(text, phrase, c) ==
    LET Followed(i) ==
            IF i > 0 /\ IndexOf(text, << c >>, i + Len(phrase)) > 0 THEN i ELSE 0
    IN  Followed(IndexOf(ToLower(text), phrase, 1))

hasChainOfThought(text) ==
    LET lower == ToLower(text)
        patterns == << << "l", "e", "t", " ", "m", "e", " ", "t", "h", "i", "n", "k" >>,
                       << "s", "t", "e", "p", " ", "b", "y", " ", "s", "t", "e", "p" >>,
                       << "f", "i", "r", "s", "t", " " >>,
                       << "f", "i", "r", "s", "t", ",", " " >>,
                       << "r", "e", "a", "s", "o", "n", "i", "n", "g", ":" >>,
                       << "t", "h", "i", "n", "k", "i", "n", "g", ":" >>,
                       << "a", "n", "a", "l", "y", "s", "i", "s", ":" >>,
                       << "t", "h", "e", "r", "e", "f", "o", "r", "e", " " >>,
                       << "t", "h", "e", "r", "e", "f", "o", "r", "e", ",", " " >>,
                       << "i", "n", " ", "c", "o", "n", "c", "l", "u", "s", "i", "o", "n" >> >>
    IN  \E k \in 1..Len(patterns) : IndexOf(lower, patterns[k], 1) > 0

filterChainOfThought(text) ==
    LET First(matches, found) ==
            IF found = {} THEN text
            ELSE Trim(Sub(text, matches[Min(found)], Len(text)))
        Matched(matches) ==
            First(matches, {k \in 1..Len(matches) : matches[k] > 0})
    IN  Matched(
            << PhraseThen(text, << "h", "e", "r", "e", " ", "i", "s", " ", "t", "h", "e", " ", "j", "s", "o", "n" >>, COLON),
               PhraseThen(text, << "o", "u", "t", "p", "u", "t", " ", "j", "s", "o", "n" >>, COLON),
               PhraseThen(text, << "t", "h", "e", "r", "e", "f", "o", "r", "e", " ", "t", "h", "e", " ", "o", "u", "t", "p", "u", "t", " ", "j", "s", "o", "n", " ", "i", "s" >>, COLON),
               PhraseThen(text, << "f", "i", "n", "a", "l", " ", "a", "n", "s", "w", "e", "r" >>, COLON),
               PhraseThen(text, << "a", "n", "s", "w", "e", "r", ":" >>, NEWLINE),
               IndexOf(text, << BTICK, BTICK, BTICK, "j", "s", "o", "n" >>, 1),
               IndexOf(text, << LBRACE >>, 1) >>)

----------------------------------------------------------------------------
(* parseResponse *)

DefaultParseOptions ==
    [allowMarkdownJson |-> TRUE, allowFixes |-> TRUE, allowAsString |-> TRUE,
     findAllJsonObjects |-> TRUE, maxDepth |-> 100,
     allowPartials |-> FALSE, useDefaults |-> TRUE, strict |-> FALSE,
     trackCoercions |-> FALSE,
     filterChainOfThought |-> TRUE, returnAllCandidates |-> FALSE]

\* parseResponse from its step 3 on, with no early return: a failed
\* extraction is coerced as the response text
parseExtractedWithoutEarlyReturn(response, schema, opts, chainOfThoughtFiltered, extraction) ==
    LET Parsed(coercion) ==
            [success |-> coercion.success,
             value |-> coercion.value,
             errors |-> coercion.errors,
             isPartial |-> coercion.isPartial,
             meta |-> [raw |-> response,
                       fromMarkdown |-> FALSE,
                       chainOfThoughtFiltered |-> chainOfThoughtFiltered,
                       fixes |-> << >>,
                       coercions |-> coercion.coercions]]
    IN  Parsed(coerceValue(IF extraction.kind = "throw" THEN Str(response)
                           ELSE extraction.value, schema, opts, << >>))

\* parseResponse from its step 3 on: the coercion of the extracted value
parseExtracted(response, schema, opts, chainOfThoughtFiltered, extraction) ==
    LET Parsed(coercion) ==
            IF extraction.kind = "throw"
            THEN [success |-> FALSE,
                  value |-> Undefined,
                  errors |-> << [path |-> << >>,
                                 message |-> "JSON extraction failed"] >>,
                  isPartial |-> FALSE,
                  meta |-> [raw |-> response,
                            chainOfThoughtFiltered |-> chainOfThoughtFiltered]]
            ELSE [success |-> coercion.success,
                  value |-> coercion.value,
                  errors |-> coercion.errors,
                  isPartial |-> coercion.isPartial,
                  meta |-> [raw |-> response,
                            fromMarkdown |-> extraction.fromMarkdown,
                            chainOfThoughtFiltered |-> chainOfThoughtFiltered,
                            fixes |-> extraction.fixes,
                            coercions |-> coercion.coercions]]
    IN  Parsed(coerceValue(extraction.value, schema, opts, << >>))

\* parseResponse from its step 2 on, with chainOfThoughtFiltered set
\* whenever the filter ran, whether it changed the text or not
parseFilteredWhenDetected(response, schema, opts, filtering, text) ==
    parseExtracted(response, schema, opts, filtering,
                   extractJson(text, opts, TRUE, 0))

\* parseResponse from its step 2 on: the extraction from the filtered text
parseFiltered(response, schema, opts, filtering, text) ==
    parseExtracted(response, schema, opts, filtering /\ text # response,
                   extractJson(text, opts, TRUE, 0))

\* a ParseResult; options holds the fields the caller gave
parseResponse(response, schema, options) ==
    LET opts == options @@ DefaultParseOptions
        filtering == opts.filterChainOfThought /\ hasChainOfThought(response)
    IN  parseFiltered(response, schema, opts, filtering,
                      IF filtering THEN filterChainOfThought(response)
                      ELSE response)

\* parsePartialResponse with the two options forced last given first: what
\* the caller gave for them wins
parsePartialResponseCallerWins(partialResponse, schema, options) ==
    parseResponse(partialResponse, schema,
                  options @@ [allowPartials |-> TRUE, allowAsString |-> TRUE]
                    @@ DefaultParseOptions)

\* parseResponse with allowPartials and allowAsString set over the options
\* the caller gave and the defaults
parsePartialResponse(partialResponse, schema, options) ==
    parseResponse(partialResponse, schema,
                  [allowPartials |-> TRUE, allowAsString |-> TRUE]
                    @@ options @@ DefaultParseOptions)

\* the position after the match of jsonRegex that starts at position i, or
\* 0: /\{[\s\S]*?\}|\[[\s\S]*?\]|"[^"]*"|-?\d+(?:\.\d+)?|true|false|null/
JsonRegexEnd(s, i) ==
    LET Closed(e) == IF e = 0 THEN 0 ELSE e + 1
        DigitsEnd(a) ==
            Min({j \in a..Len(s) : j = Len(s) \/ ~IsDigit(s[j + 1])}) + 1
        Fraction(e) ==
            IF e + 1 <= Len(s) /\ s[e] = "." /\ IsDigit(s[e + 1])
            THEN DigitsEnd(e + 1) ELSE e
        Number(a) ==
            IF a <= Len(s) /\ IsDigit(s[a]) THEN Fraction(DigitsEnd(a)) ELSE 0
        Literal ==
            IF MatchAt(s, << "t", "r", "u", "e" >>, i) THEN i + 4
            ELSE IF MatchAt(s, << "f", "a", "l", "s", "e" >>, i) THEN i + 5
            ELSE IF MatchAt(s, << "n", "u", "l", "l" >>, i) THEN i + 4
            ELSE 0
        Bracketed(c) ==
            IF c # 0 THEN c
            ELSE IF Number(IF s[i] = "-" THEN i + 1 ELSE i) # 0
            THEN Number(IF s[i] = "-" THEN i + 1 ELSE i)
            ELSE Literal
    IN  Bracketed(IF s[i] = LBRACE
                  THEN Closed(IndexOf(s, << RBRACE >>, i + 1))
                  ELSE IF s[i] = LBRACK
                  THEN Closed(IndexOf(s, << RBRACK >>, i + 1))
                  ELSE IF s[i] = DQUOTE
                  THEN Closed(IndexOf(s, << DQUOTE >>, i + 1))
                  ELSE 0)

\* the matches jsonRegex.exec finds from position from on
RECURSIVE JsonRegexMatches(_, _)
JsonRegexMatches(s, from) ==
    LET At(i) == << Sub(s, i, JsonRegexEnd(s, i) - 1) >>
                   \o JsonRegexMatches(s, JsonRegexEnd(s, i))
        First(starts) == IF starts = {} THEN << >> ELSE At(Min(starts))
    IN  First({i \in from..Len(s) : JsonRegexEnd(s, i) # 0})

\* the trimmed bodies /```(?:json)?\s*\n?([\s\S]*?)```/g captures from
\* position from on
RECURSIVE FencedBodies(_, _)
FencedBodies(s, from) ==
    LET Closing(c, e) ==
            IF e = 0 THEN << >>
            ELSE << Trim(Sub(s, c, e - 1)) >> \o FencedBodies(s, e + 3)
        Body(c) == Closing(c, IndexOf(s, Fence, c))
        Opening(q) ==
            IF q = 0 THEN << >>
            ELSE Body(SkipWs(s, IF MatchAt(s, << "j", "s", "o", "n" >>, q + 3)
                                THEN q + 7 ELSE q + 3))
    IN  Opening(IndexOf(s, Fence, from))

\* [...new Set(items)]: each item once, at the place of its first occurrence
RECURSIVE Distinct(_)
Distinct(items) ==
    IF items = << >> THEN << >>
    ELSE LET init == Distinct(Sub(items, 1, Len(items) - 1))
             last == items[Len(items)]
         IN  IF \E k \in 1..Len(init) : init[k] = last THEN init
             ELSE Append(init, last)

extractAllCandidates(text) ==
    Distinct(JsonRegexMatches(text, 1) \o FencedBodies(text, 1))

\* parseResponse does not throw, so every candidate gives a result
parseAllCandidates(response, schema, options) ==
    LET Results(cands) ==
            [k \in 1..Len(cands) |-> parseResponse(cands[k], schema, options)]
    IN  Results(extractAllCandidates(response))

\* what parseBestCandidate returns when there is no candidate
NoCandidate == [kind |-> "null"]

\* parseBestCandidate without the sort: the result of the first candidate
BestOfUnsorted(results) ==
    IF results = << >> THEN NoCandidate ELSE results[1]

\* candidates[0] after the stable sort by errors.length: the first result
\* among those with the fewest errors
BestOf(results) ==
    IF results = << >> THEN NoCandidate
    ELSE results[Min({k \in 1..Len(results) :
                        \A j \in 1..Len(results) :
                            Len(results[k].errors) <= Len(results[j].errors)})]

parseBestCandidate(response, schema, options) ==
    BestOf(parseAllCandidates(response, schema, options))

----------------------------------------------------------------------------
(* Schemas the calls are made with, as the TypeBox constructors build them *)

TNumber == [kind |-> "Number", type |-> "number"]

TNumberMin(n) == [kind |-> "Number", type |-> "number", minimum |-> n]

TInteger == [kind |-> "Integer", type |-> "integer"]

TString == [kind |-> "String", type |-> "string"]

TBoolean == [kind |-> "Boolean", type |-> "boolean"]

TNull == [kind |-> "Null", type |-> "null"]

TUnion(variants) == [kind |-> "Union", anyOf |-> variants]

TArray(items) == [kind |-> "Array", type |-> "array", items |-> items]

TOptional(item) == [kind |-> "Optional", item |-> item]

\* Type.Object({key: item}); the key is required unless item is Optional
TObject1(key, item) == TypeObject(<< [k |-> key, s |-> item] >>)

\* Type.Object({k1: s1, k2: s2})
TObject2(k1, s1, k2, s2) ==
    TypeObject(<< [k |-> k1, s |-> s1], [k |-> k2, s |-> s2] >>)

KeyA == << "a" >>

KeyB == << "b" >>

KeyAge == << "a", "g", "e" >>

KeyItems == << "i", "t", "e", "m", "s" >>

\* the levels a schema that holds itself is unfolded to
CycleUnfold == 4

\* the kinds of node a schema holds itself through
CycleKinds == << "Array", "Union", "Optional" >>

\* the first n levels of the schema S that holds itself through a node of
\* the kind: S = Array(S), S = Union([S]), S = Optional(S); what the coercer
\* meets on its way down, with a Number in the place of level n + 1
RECURSIVE Unfold(_, _)
Unfold(kind, n) ==
    IF n = 0 THEN TNumber
    ELSE CASE kind = "Array" -> TArray(Unfold(kind, n - 1))
           [] kind = "Union" -> TUnion(<< Unfold(kind, n - 1) >>)
           [] kind = "Optional" -> TOptional(Unfold(kind, n - 1))

LeafSchemas == << TNumberMin(0), TNumber, TInteger, TString, TBoolean, TNull >>

\* every Union of one or of two leaves, in both orders
UnionSchemas ==
    [i \in 1..Len(LeafSchemas) |-> TUnion(<< LeafSchemas[i] >>)]
    \o [n \in 1..(Len(LeafSchemas) * Len(LeafSchemas)) |->
          TUnion(<< LeafSchemas[((n - 1) \div Len(LeafSchemas)) + 1],
                    LeafSchemas[((n - 1) % Len(LeafSchemas)) + 1] >>)]

FieldSchemas ==
    LeafSchemas \o UnionSchemas
    \o [i \in 1..Len(LeafSchemas) |-> TOptional(LeafSchemas[i])]

ObjectSchemas == [i \in 1..Len(FieldSchemas) |-> TObject1(KeyA, FieldSchemas[i])]

Schemas ==
    LeafSchemas \o UnionSchemas \o ObjectSchemas
    \o [i \in 1..Len(ObjectSchemas) |-> TUnion(<< ObjectSchemas[i] >>)]
    \o [i \in 1..Len(LeafSchemas) |-> TArray(LeafSchemas[i])]
    \o << TObject1(KeyAge, TNumberMin(0)),
          TObject2(KeyA, TInteger, KeyB, TInteger),
          TUnion(<< TObject1(KeyA, TNumberMin(0)), TObject1(KeyB, TString) >>),
          TUnion(<< TObject1(KeyA, TNumber), TObject1(KeyA, TString) >>),
          TUnion(<< TObject1(KeyA, TString), TObject1(KeyA, TNumber) >>),
          TArray(TObject1(KeyA, TNumberMin(0))) >>
    \o [i \in 1..Len(CycleKinds) |-> Unfold(CycleKinds[i], CycleUnfold)]

----------------------------------------------------------------------------
(* Values and texts the calls are made with *)

\* the longest array among the values
MaxItems == 2

\* the most fragments a text given to extractJson is made of
MaxPieces == 3

\* the most fragments a block of a text of two fenced blocks is made of
MaxFencedPieces == 2

\* the most fragments a text given to parseResponse is made of
MaxParsePieces == 2

Scalars ==
    { Null, Num(0 - 5), Num(7), Str(<< "7" >>), Str(<< "x" >>), Bool(TRUE) }

RECURSIVE ArraysOf(_, _)
ArraysOf(items, n) ==
    IF n = 0 THEN { << >> }
    ELSE LET shorter == ArraysOf(items, n - 1)
         IN  shorter \cup { Append(a, x) : a \in shorter, x \in items }

FlatObjects ==
    { << >> }
    \cup { << [k |-> KeyA, v |-> x] >> : x \in Scalars }
    \cup { << [k |-> KeyB, v |-> x] >> : x \in Scalars }
    \cup { << [k |-> KeyA, v |-> x], [k |-> KeyB, v |-> y] >> :
             x \in Scalars, y \in { Num(7), Str(<< "x" >>) } }

Values ==
    Scalars
    \cup { Obj(o) : o \in FlatObjects }
    \cup { Arr(a) : a \in ArraysOf({ Null, Num(0 - 5), Str(<< "7" >>) },
                                    MaxItems) }
    \cup { Arr(<< Obj(<< [k |-> KeyA, v |-> x] >>) >>) : x \in Scalars }

Fragments ==
    << << "{", "\"", "a", "\"", ":", "1" >>,
       << COMMA >>, << RBRACE >>, << LDQUO >>, << DQUOTE >>, << "x" >> >>

RECURSIVE PiecedTexts(_)
PiecedTexts(n) ==
    IF n = 0 THEN { << >> }
    ELSE LET shorter == PiecedTexts(n - 1)
         IN  shorter \cup { b \o Fragments[i] :
                              b \in shorter, i \in 1..Len(Fragments) }

Fenced(tag, body) ==
    << BTICK, BTICK, BTICK >> \o tag \o << NEWLINE >> \o body
      \o << NEWLINE, BTICK, BTICK, BTICK >>

\* {"items":["a","b"]}
ItemsText ==
    << "{", "\"", "i", "t", "e", "m", "s", "\"", ":", "[", "\"", "a", "\"", ",", "\"", "b", "\"", "]", "}" >>

\* {"items":["a","b"
TruncatedItemsText == Sub(ItemsText, 1, Len(ItemsText) - 2)

\* the texts of the documented scenarios
NamedTexts ==
    { << "{", "\"", "a", "g", "e", "\"", ":", "-", "5", "}" >>,
      << "{", "\"", "a", "\"", ":", "1", ",", "\"", "b", "\"", ":", "2", ",", "}" >>,
      << "{", "\"", "a", "\"", ":", "1", ",", "\"", "b", "\"", ":", "2", "}" >>,
      << "{", "\"", "c", "o", "m", "m", "a", "n", "d", "\"", ":", "\"", "e", "c", "h", "o", " ", "{", "u201C", "a", "c", "t", "i", "o", "n", "u201D", ":", " ", "u201C", "d", "i", "a", "g", "n", "o", "s", "t", "i", "c", "s", "u201D", "}", "\"", "}" >>,
      << "{", "\"", "a", "\"", ":", "\"", "u2018", "x", "u2019", "\"", "}" >> }

JsonTag == << "j", "s", "o", "n" >>

\* {"a":1}
PayloadText == << "{", "\"", "a", "\"", ":", "1", "}" >>

\* {"a":1,}
TrailingCommaText == << "{", "\"", "a", "\"", ":", "1", ",", "}" >>

\* two fenced blocks of which one is a JSON document and the other is one
\* after a repair, or is none
MixedBlockTexts ==
    { Fenced(<< >>, PayloadText) \o << NEWLINE >>
        \o Fenced(<< >>, TrailingCommaText),
      Fenced(<< >>, TrailingCommaText) \o << NEWLINE >>
        \o Fenced(JsonTag, PayloadText),
      Fenced(<< >>, PayloadText) \o << NEWLINE >> \o Fenced(<< >>, << "x" >>) }

ExtractTexts ==
    LET bodies == PiecedTexts(MaxPieces)
    IN  bodies
        \cup { Fenced(<< >>, b) : b \in bodies }
        \cup { Fenced(<< "j", "s", "o", "n" >>, b) : b \in bodies }
        \cup { Fenced(<< >>, b) \o << NEWLINE >> \o Fenced(<< >>, b) :
                 b \in PiecedTexts(MaxFencedPieces) }
        \cup NamedTexts
        \cup MixedBlockTexts

\* the options a caller gives to extractJson
ExtractionOptionChoices ==
    << [allowFixes |-> TRUE],
       [allowFixes |-> FALSE],
       [allowFixes |-> FALSE, findAllJsonObjects |-> FALSE,
        allowAsString |-> FALSE],
       [allowMarkdownJson |-> FALSE],
       [normalizeUnicodeQuotes |-> FALSE] >>

\* the options a caller gives to coerceValue
CoercionOptionChoices ==
    << [trackCoercions |-> TRUE],
       [allowPartials |-> TRUE],
       [useDefaults |-> FALSE],
       [maxDepth |-> 2] >>

\* the options a caller gives to parseResponse
ParseOptionChoices ==
    << [filterChainOfThought |-> TRUE],
       [allowFixes |-> FALSE],
       [allowAsString |-> FALSE, trackCoercions |-> TRUE] >>

\* the documents whose prefixes are the partial responses of a stream
StreamDocuments ==
    { ItemsText,
      << "{", "\"", "a", "\"", ":", "1", ",", "\"", "b", "\"", ":", "2", "}" >>,
      << "{", "\"", "a", "\"", ":", "\"", "x", "\"", ",", "\"", "b", "\"", ":", "7", "}" >> }

\* every prefix of a document, the document itself included
PartialTexts ==
    UNION { { Sub(d, 1, n) : n \in 0..Len(d) } : d \in StreamDocuments }

\* the schemas the partial responses are parsed against
PartialSchemas ==
    << TObject1(KeyItems, TArray(TString)),
       TObject2(KeyA, TInteger, KeyB, TInteger),
       TObject2(KeyA, TString, KeyB, TOptional(TNumber)),
       TObject1(KeyA, TUnion(<< TNumber, TString >>)) >>

\* the options a caller gives to parsePartialResponse, or to parseResponse
\* of a partial response
PartialOptionChoices ==
    << [allowPartials |-> TRUE],
       [allowPartials |-> FALSE, allowAsString |-> FALSE],
       [allowFixes |-> FALSE],
       [trackCoercions |-> TRUE] >>

\* the most fragments a text given to filterChainOfThought is made of
MaxThoughtPieces == 3

\* reasoning, the markers of the output, fences and a payload
ThoughtFragments ==
    << << "F", "i", "r", "s", "t", ",", " ", "x", "." >>,
       << "H", "e", "r", "e", " ", "i", "s", " ", "t", "h", "e", " ", "J", "S", "O", "N", ":" >>,
       << "T", "h", "e", "r", "e", "f", "o", "r", "e", " ", "t", "h", "e", " ", "o", "u", "t", "p", "u", "t", " ", "J", "S", "O", "N", " ", "i", "s", ":" >>,
       << "F", "i", "n", "a", "l", " ", "a", "n", "s", "w", "e", "r", ":" >>,
       << "a", "n", "s", "w", "e", "r", ":" >>,
       << NEWLINE >>,
       << BTICK, BTICK, BTICK, "j", "s", "o", "n", NEWLINE >>,
       << BTICK, BTICK, BTICK, NEWLINE >>,
       << "{", "\"", "a", "\"", ":", "1", "}" >> >>

\* texts around the edges of the markers of reasoning: the words of the
\* detection test, "Therefore:", "THEREFORE, x", "x first y",
\* "First, x", "firstly", no marker
DetectionTexts ==
    { << "L", "e", "t", " ", "m", "e", " ", "t", "h", "i", "n", "k", " ", "s", "t", "e", "p", " ", "b", "y", " ", "s", "t", "e", "p", "." >>,
      << "T", "h", "e", "r", "e", "f", "o", "r", "e", ":" >>,
      << "T", "H", "E", "R", "E", "F", "O", "R", "E", ",", " ", "x" >>,
      << "x", " ", "f", "i", "r", "s", "t", " ", "y" >>,
      << "f", "i", "r", "s", "t", "l", "y" >>,
      << "I", "n", " ", "c", "o", "n", "c", "l", "u", "s", "i", "o", "n" >>,
      << "R", "e", "a", "s", "o", "n", "i", "n", "g", ":" >>,
      << "t", "h", "i", "n", "k", "i", "n", "g", ":" >>,
      << "A", "n", "a", "l", "y", "s", "i", "s", ":" >>,
      << "{", "\"", "a", "n", "s", "w", "e", "r", "\"", ":", "\"", "y", "e", "s", "\"", "}" >> }

RECURSIVE ThoughtTexts(_)
ThoughtTexts(n) ==
    IF n = 0 THEN { << >> }
    ELSE LET shorter == ThoughtTexts(n - 1)
         IN  shorter \cup { b \o ThoughtFragments[i] :
                              b \in shorter, i \in 1..Len(ThoughtFragments) }

\* the responses that are a JSON document, alone or in a ```json fence
ParseDocuments ==
    NamedTexts
    \cup { JsonStringify(v) : v \in Values }
    \cup { Fenced(JsonTag, JsonStringify(v)) :
             v \in Scalars \cup { Obj(o) : o \in FlatObjects } }
    \cup { Fenced(JsonTag, t) : t \in NamedTexts }

\* responses that hold reasoning: before the payload, alone, after the
\* payload, before a marker and a fenced payload, before a marker and a
\* scalar
ReasonedTexts ==
    { << "L", "e", "t", " ", "m", "e", " ", "t", "h", "i", "n", "k", ".", " " >> \o PayloadText,
      << "L", "e", "t", " ", "m", "e", " ", "t", "h", "i", "n", "k" >>,
      PayloadText \o << " ", "t", "h", "e", "r", "e", "f", "o", "r", "e", ",", " ", "o", "k" >>,
      << "F", "i", "r", "s", "t", ",", " ", "x", ".", NEWLINE >>
        \o << "T", "h", "e", "r", "e", "f", "o", "r", "e", " ", "t", "h", "e", " ", "o", "u", "t", "p", "u", "t", " ", "J", "S", "O", "N", " ", "i", "s", ":", NEWLINE >>
        \o Fenced(JsonTag, PayloadText),
      << "S", "t", "e", "p", " ", "b", "y", " ", "s", "t", "e", "p", ".", " ", "F", "i", "n", "a", "l", " ", "a", "n", "s", "w", "e", "r", ":", " ", "7" >> }

\* the options a caller gives to parseResponse of a response with reasoning
ReasonedOptionChoices ==
    ParseOptionChoices \o << [filterChainOfThought |-> FALSE] >>

ParseTexts ==
    ParseDocuments \cup PiecedTexts(MaxParsePieces) \cup ReasonedTexts

\* the schemas a response that is no document is parsed against
PiecedSchemas ==
    LeafSchemas
    \o << TObject1(KeyA, TNumberMin(0)),
          TObject2(KeyA, TInteger, KeyB, TInteger),
          TUnion(<< TObject1(KeyA, TNumberMin(0)), TObject1(KeyB, TString) >>),
          TArray(TString) >>

----------------------------------------------------------------------------
(* The calls.  A behaviour is one call of an exported function: op names the
   function, text, value, schema, options and isDone are its arguments, and
   the result is in extraction, coercion, parsed, filtered, detected or
   candidates once pc is "done". *)

VARIABLES pc, op, text, value, schema, options, isDone,
          extraction, coercion, parsed, filtered, detected, candidates

vars == << pc, op, text, value, schema, options, isDone,
           extraction, coercion, parsed, filtered, detected, candidates >>

NotYet == [kind |-> "none"]

InitExtract ==
    /\ pc = "ready"
    /\ op = "extractJson"
    /\ text \in ExtractTexts
    /\ \E o \in 1..Len(ExtractionOptionChoices) :
          options = ExtractionOptionChoices[o]
    /\ isDone \in BOOLEAN
    /\ value = Undefined
    /\ schema = [kind |-> "Any"]
    /\ extraction = NotYet
    /\ coercion = NotYet
    /\ parsed = NotYet
    /\ filtered = NotYet
    /\ detected = NotYet
    /\ candidates = NotYet

InitCoerce ==
    /\ pc = "ready"
    /\ op = "coerceValue"
    /\ text = << >>
    /\ \E o \in 1..Len(CoercionOptionChoices) :
          options = CoercionOptionChoices[o]
    /\ isDone = TRUE
    /\ value \in Values
    /\ \E s \in 1..Len(Schemas) : schema = Schemas[s]
    /\ extraction = NotYet
    /\ coercion = NotYet
    /\ parsed = NotYet
    /\ filtered = NotYet
    /\ detected = NotYet
    /\ candidates = NotYet

InitParse ==
    /\ pc = "ready"
    /\ op = "parseResponse"
    /\ text \in ParseTexts
    /\ IF text \in ReasonedTexts
       THEN \E o \in 1..Len(ReasonedOptionChoices) :
               options = ReasonedOptionChoices[o]
       ELSE \E o \in 1..Len(ParseOptionChoices) :
               options = ParseOptionChoices[o]
    /\ isDone = TRUE
    /\ value = Undefined
    /\ IF text \in ParseDocuments
       THEN \E s \in 1..Len(Schemas) : schema = Schemas[s]
       ELSE \E s \in 1..Len(PiecedSchemas) : schema = PiecedSchemas[s]
    /\ extraction = NotYet
    /\ coercion = NotYet
    /\ parsed = NotYet
    /\ filtered = NotYet
    /\ detected = NotYet
    /\ candidates = NotYet

\* a partial response, given to parseResponse or to parsePartialResponse
InitPartial ==
    /\ pc = "ready"
    /\ op \in { "parseResponse", "parsePartialResponse" }
    /\ text \in PartialTexts
    /\ \E o \in 1..Len(PartialOptionChoices) :
          options = PartialOptionChoices[o]
    /\ isDone = TRUE
    /\ value = Undefined
    /\ \E s \in 1..Len(PartialSchemas) : schema = PartialSchemas[s]
    /\ extraction = NotYet
    /\ coercion = NotYet
    /\ parsed = NotYet
    /\ filtered = NotYet
    /\ detected = NotYet
    /\ candidates = NotYet

InitFilter ==
    /\ pc = "ready"
    /\ op \in { "filterChainOfThought", "hasChainOfThought" }
    /\ text \in ThoughtTexts(MaxThoughtPieces) \cup DetectionTexts
    /\ options = [filterChainOfThought |-> TRUE]
    /\ isDone = TRUE
    /\ value = Undefined
    /\ schema = [kind |-> "Any"]
    /\ extraction = NotYet
    /\ coercion = NotYet
    /\ parsed = NotYet
    /\ filtered = NotYet
    /\ detected = NotYet
    /\ candidates = NotYet

KeyToString == << "t", "o", "S", "t", "r", "i", "n", "g" >>

\* Object schemas with a default, with an optional property and with the
\* forms of additionalProperties
FieldRuleSchemas ==
    << TObject1(KeyA, TNumber),
       TObject1(KeyA, [default |-> Num(3)] @@ TNumber),
       TObject1(KeyA, TOptional(TNumber)),
       [additionalProperties |-> FALSE]
         @@ TObject2(KeyA, TNumber, KeyB, [default |-> Str(<< "d" >>)] @@ TString),
       [additionalProperties |-> TRUE] @@ TObject1(KeyA, TNumber),
       [additionalPropertiesSchema |-> TNumber] @@ TObject1(KeyA, TNumber) >>

\* objects with and without the fields the schemas declare
FieldRuleValues ==
    { Obj(o) : o \in FlatObjects }
    \cup { Obj(<< [k |-> KeyToString, v |-> Num(7)] >>),
           Obj(<< [k |-> KeyA, v |-> Num(7)],
                  [k |-> KeyToString, v |-> Str(<< "x" >>)] >>) }

InitFields ==
    /\ pc = "ready"
    /\ op = "coerceValue"
    /\ text = << >>
    /\ \E o \in 1..Len(CoercionOptionChoices) :
          options = CoercionOptionChoices[o]
    /\ isDone = TRUE
    /\ value \in FieldRuleValues
    /\ \E s \in 1..Len(FieldRuleSchemas) : schema = FieldRuleSchemas[s]
    /\ extraction = NotYet
    /\ coercion = NotYet
    /\ parsed = NotYet
    /\ filtered = NotYet
    /\ detected = NotYet
    /\ candidates = NotYet

\* String schemas with each constraint and with two of them
StringRuleSchemas ==
    << [minLength |-> 2] @@ TString,
       [maxLength |-> 1] @@ TString,
       [pattern |-> "^[0-9]+$"] @@ TString,
       [format |-> "email"] @@ TString,
       [minLength |-> 2, pattern |-> "^[a-z]+$"] @@ TString,
       [minLength |-> 3, maxLength |-> 1, pattern |-> "^[0-9]+$"] @@ TString,
       TString >>

\* strings of the lengths and of the forms the constraints tell apart
StringRuleValues ==
    { Str(<< >>), Str(<< "x" >>), Str(<< "7" >>), Str(<< "7", "7" >>),
      Str(<< "a", "b", "c" >>), Str(<< "a", "@", "b" >>),
      Str(<< "a", "7" >>), Str(<< "7", "7", "7" >>) }

InitStrings ==
    /\ pc = "ready"
    /\ op = "coerceValue"
    /\ text = << >>
    /\ \E o \in 1..Len(CoercionOptionChoices) :
          options = CoercionOptionChoices[o]
    /\ isDone = TRUE
    /\ value \in StringRuleValues
    /\ \E s \in 1..Len(StringRuleSchemas) : schema = StringRuleSchemas[s]
    /\ extraction = NotYet
    /\ coercion = NotYet
    /\ parsed = NotYet
    /\ filtered = NotYet
    /\ detected = NotYet
    /\ candidates = NotYet

MaxDepthPieces == 4

DepthFragments ==
    << Fence, << NEWLINE >>, PayloadText, JsonTag, << "x" >> >>

\* texts of at most n pieces among fences, line ends, tags and payloads
RECURSIVE FencePiecedTexts(_)
FencePiecedTexts(n) ==
    IF n = 0 THEN { << >> }
    ELSE LET shorter == FencePiecedTexts(n - 1)
         IN  shorter \cup { b \o DepthFragments[i] :
                              b \in shorter, i \in 1..Len(DepthFragments) }

\* texts with fences, among them a fenced block inside a fenced block
DepthTexts ==
    FencePiecedTexts(MaxDepthPieces)
    \cup { Fenced(JsonTag, PayloadText),
           Fenced(<< >>, TrailingCommaText),
           Fenced(<< >>, Fenced(JsonTag, PayloadText)) }

\* the options a caller gives to extractJson to bound its recursion
DepthOptionChoices ==
    << [maxDepth |-> 0],
       [maxDepth |-> 1],
       [maxDepth |-> 0, allowFixes |-> FALSE, findAllJsonObjects |-> FALSE,
        allowAsString |-> FALSE],
       [allowFixes |-> TRUE] >>

InitDepth ==
    /\ pc = "ready"
    /\ op = "extractJson"
    /\ text \in DepthTexts
    /\ \E o \in 1..Len(DepthOptionChoices) : options = DepthOptionChoices[o]
    /\ isDone \in BOOLEAN
    /\ value = Undefined
    /\ schema = [kind |-> "Any"]
    /\ extraction = NotYet
    /\ coercion = NotYet
    /\ parsed = NotYet
    /\ filtered = NotYet
    /\ detected = NotYet
    /\ candidates = NotYet

\* responses with no, one or several candidates
CandidateTexts ==
    { << "n", "o", "n", "e" >>,
      PayloadText,
      Fenced(JsonTag, PayloadText),
      << DQUOTE, "x", DQUOTE, " ", "1" >>,
      << "-", "2", ".", "5", " ", "t", "r", "u", "e", " ", "n", "u", "l", "l" >>,
      << "[", DQUOTE, "x", DQUOTE, "]", " " >> \o PayloadText,
      << "{", DQUOTE, "a", DQUOTE, ":", DQUOTE, "x", DQUOTE, "}", " " >>
        \o PayloadText \o << " " >> \o PayloadText,
      << "{", DQUOTE, "b", DQUOTE, ":" >> \o PayloadText \o << "}" >> }

InitCandidates ==
    /\ pc = "ready"
    /\ op \in { "parseAllCandidates", "parseBestCandidate" }
    /\ text \in CandidateTexts
    /\ \E o \in 1..Len(ParseOptionChoices) : options = ParseOptionChoices[o]
    /\ \E n \in 1..Len(PiecedSchemas) : schema = PiecedSchemas[n]
    /\ isDone = TRUE
    /\ value = Undefined
    /\ extraction = NotYet
    /\ coercion = NotYet
    /\ parsed = NotYet
    /\ filtered = NotYet
    /\ detected = NotYet
    /\ candidates = NotYet

Init ==
    \/ InitExtract
    \/ InitCoerce
    \/ InitParse
    \/ InitPartial
    \/ InitFilter
    \/ InitCandidates
    \/ InitFields
    \/ InitStrings
    \/ InitDepth

ExtractJson ==
    /\ pc = "ready"
    /\ op = "extractJson"
    /\ extraction' = extractJson(text, options, isDone, 0)
    /\ pc' = "done"
    /\ UNCHANGED << op, text, value, schema, options, isDone, coercion, parsed,
                    filtered, detected, candidates >>

CoerceValue ==
    /\ pc = "ready"
    /\ op = "coerceValue"
    /\ coercion' = coerceValue(value, schema, options, << >>)
    /\ pc' = "done"
    /\ UNCHANGED << op, text, value, schema, options, isDone, extraction,
                    parsed, filtered, detected, candidates >>

ParseResponse ==
    /\ pc = "ready"
    /\ op = "parseResponse"
    /\ parsed' = parseResponse(text, schema, options)
    /\ pc' = "done"
    /\ UNCHANGED << op, text, value, schema, options, isDone, extraction,
                    coercion, filtered, detected, candidates >>

ParsePartialResponse ==
    /\ pc = "ready"
    /\ op = "parsePartialResponse"
    /\ parsed' = parsePartialResponse(text, schema, options)
    /\ pc' = "done"
    /\ UNCHANGED << op, text, value, schema, options, isDone, extraction,
                    coercion, filtered, detected, candidates >>

FilterChainOfThought ==
    /\ pc = "ready"
    /\ op = "filterChainOfThought"
    /\ filtered' = filterChainOfThought(text)
    /\ pc' = "done"
    /\ UNCHANGED << op, text, value, schema, options, isDone, extraction,
                    coercion, parsed, detected, candidates >>

HasChainOfThought ==
    /\ pc = "ready"
    /\ op = "hasChainOfThought"
    /\ detected' = hasChainOfThought(text)
    /\ pc' = "done"
    /\ UNCHANGED << op, text, value, schema, options, isDone, extraction,
                    coercion, parsed, filtered, candidates >>

ParseAllCandidates ==
    /\ pc = "ready"
    /\ op = "parseAllCandidates"
    /\ candidates' = [kind |-> "results",
                      results |-> parseAllCandidates(text, schema, options)]
    /\ pc' = "done"
    /\ UNCHANGED << op, text, value, schema, options, isDone, extraction,
                    coercion, parsed, filtered, detected >>

ParseBestCandidate ==
    /\ pc = "ready"
    /\ op = "parseBestCandidate"
    /\ parsed' = parseBestCandidate(text, schema, options)
    /\ pc' = "done"
    /\ UNCHANGED << op, text, value, schema, options, isDone, extraction,
                    coercion, filtered, detected, candidates >>

Next ==
    \/ ExtractJson
    \/ CoerceValue
    \/ ParseResponse
    \/ ParsePartialResponse
    \/ FilterChainOfThought
    \/ HasChainOfThought
    \/ ParseAllCandidates
    \/ ParseBestCandidate

Spec == Init /\ [][Next]_vars

\* the calls of one function only
SpecExtract == InitExtract /\ [][ExtractJson]_vars

SpecCoerce == InitCoerce /\ [][CoerceValue]_vars

\* the calls of coerceValue on an object, against an Object schema
SpecFields == InitFields /\ [][CoerceValue]_vars

\* the calls of coerceValue on a string, against a String schema
SpecStrings == InitStrings /\ [][CoerceValue]_vars

\* the calls of extractJson on texts with fences, with a depth limit
SpecDepth == InitDepth /\ [][ExtractJson]_vars

SpecParse == InitParse /\ [][ParseResponse]_vars

\* the calls of the two functions of the chain-of-thought filter
SpecFilter == InitFilter /\ [][FilterChainOfThought \/ HasChainOfThought]_vars

\* the calls of the two functions that parse every candidate of a response
SpecCandidates ==
    InitCandidates /\ [][ParseAllCandidates \/ ParseBestCandidate]_vars

\* the calls on the partial responses of a stream
SpecPartial == InitPartial /\ [][ParseResponse \/ ParsePartialResponse]_vars

----------------------------------------------------------------------------
(* Properties of the coercer *)

CoerceDone == pc = "done" /\ op = "coerceValue"

ParseDone == pc = "done" /\ op = "parseResponse"

ExtractDone == pc = "done" /\ op = "extractJson"

CoercionOpts == options @@ DefaultCoercionOptions

\* the alternatives of the Union schema s that canHandleValue admits for v
Admissible(v, s) ==
    {i \in 1..Len(s.anyOf) : canHandleValue(v, s.anyOf[i])}

\* what alternative i of the Union schema s makes of v on its own
VariantStep(v, s, i, opts) == coerceInternal(v, s.anyOf[i], opts, << >>, 0)

\* the alternative the Union schema s is resolved to for v: the admitted one
\* with the fewest errors, the earliest of these; the first one when none is
\* admitted
Resolved(v, s, opts) ==
    IF Admissible(v, s) = {} THEN 1
    ELSE Min({i \in Admissible(v, s) :
                \A j \in Admissible(v, s) :
                    Len(VariantStep(v, s, i, opts).errs)
                      <= Len(VariantStep(v, s, j, opts).errs)})

Messages(errors) == {errors[i].message : i \in 1..Len(errors)}

\* C1: when coerceValue resolves a Union to an alternative whose own
\* coercion recorded errors, the result holds those errors and success is
\* false
C1_UnionErrorsReported ==
    LET resolved == VariantStep(value, schema,
                                Resolved(value, schema, CoercionOpts),
                                CoercionOpts)
    IN  (/\ CoerceDone
         /\ KindOf(schema) = "Union"
         /\ ~IsNullish(value)
         /\ Len(resolved.errs) > 0)
        => /\ ~coercion.success
           /\ \A j \in 1..Len(resolved.errs) :
                 resolved.errs[j] \in Messages(coercion.errors)

\* C2: an error raised while coercing field f of the root object carries
\* the path f: parsing a JSON object against an Object schema, each error
\* the coercion of a present field records is in the result with the
\* field's name as its path
C2_FieldErrorHasFieldPath ==
    (/\ ParseDone
     /\ KindOf(schema) = "Object"
     /\ JsonParse(text).ok
     /\ JsonParse(text).val.t = "object")
    => \A n \in 1..Len(schema.properties) :
          LET key == schema.properties[n].k
              fieldValue == GetKey(JsonParse(text).val.v, key)
              step == coerceInternal(fieldValue, schema.properties[n].s,
                                     options @@ DefaultParseOptions, key, 1)
          IN  fieldValue.t # "undefined"
              => \A j \in 1..Len(step.errs) :
                    \E i \in 1..Len(parsed.errors) :
                        /\ parsed.errors[i].message = step.errs[j]
                        /\ parsed.errors[i].path = key

\* whether v holds every required key of every Object schema of s it
\* reaches; a Union is covered when one alternative is
RECURSIVE RequiredCovered(_, _)
RequiredCovered(v, s) ==
    CASE KindOf(s) = "Object" /\ v.t = "object" ->
            \A n \in 1..Len(s.properties) :
                LET key == s.properties[n].k
                    isRequired == \E j \in 1..Len(s.required) : s.required[j] = key
                IN  /\ isRequired =>
                          HasKey(v.v, key) /\ GetKey(v.v, key).t # "undefined"
                    /\ HasKey(v.v, key) =>
                          RequiredCovered(GetKey(v.v, key), s.properties[n].s)
      [] KindOf(s) = "Array" /\ v.t = "array" ->
            \A n \in 1..Len(v.v) : RequiredCovered(v.v[n], s.items)
      [] KindOf(s) = "Union" ->
            \E n \in 1..Len(s.anyOf) : RequiredCovered(v, s.anyOf[n])
      [] KindOf(s) = "Optional" -> IsNullish(v) \/ RequiredCovered(v, s.item)
      [] OTHER -> TRUE

\* C3: when parseResponse succeeds, every name an Object schema the value
\* reaches lists as required is a populated key of the returned object
C3_RequiredCoverage ==
    (ParseDone /\ parsed.success) => RequiredCovered(parsed.value, schema)

\* the alternatives of the Union schema s that coerce v with no error
ErrorFree(v, s, opts) ==
    {i \in 1..Len(s.anyOf) : Len(VariantStep(v, s, i, opts).errs) = 0}

\* C4 as stated: when two alternatives of a Union both coerce the input with
\* no error, the Union returns the value of the earlier one
C4_EarliestErrorFree ==
    (/\ CoerceDone
     /\ KindOf(schema) = "Union"
     /\ Cardinality(ErrorFree(value, schema, CoercionOpts)) >= 2)
    => coercion.value
         = VariantStep(value, schema,
                       Min(ErrorFree(value, schema, CoercionOpts)),
                       CoercionOpts).value

\* C4 amended: among the alternatives canHandleValue admits for the input,
\* when two of them coerce it with no error the Union returns the value of
\* the earlier one, with no error
C4_EarliestAdmittedErrorFree ==
    (/\ CoerceDone
     /\ KindOf(schema) = "Union"
     /\ ~IsNullish(value)
     /\ Cardinality(Admissible(value, schema)
                      \cap ErrorFree(value, schema, CoercionOpts)) >= 2)
    => /\ coercion.value
            = VariantStep(value, schema,
                          Min(Admissible(value, schema)
                                \cap ErrorFree(value, schema, CoercionOpts)),
                          CoercionOpts).value
       /\ coercion.success

\* a Union of two admitted alternatives that both coerce the input with no
\* error, to different values
C4_Witness ==
    /\ CoerceDone
    /\ KindOf(schema) = "Union"
    /\ Len(schema.anyOf) = 2
    /\ Admissible(value, schema) \cap ErrorFree(value, schema, CoercionOpts)
         = {1, 2}
    /\ VariantStep(value, schema, 1, CoercionOpts).value
         # VariantStep(value, schema, 2, CoercionOpts).value

\* C5: in every result of parseResponse, success is true exactly when the
\* errors list is empty
C5_SuccessIffNoErrors ==
    ParseDone => (parsed.success <=> Len(parsed.errors) = 0)

\* a result of the extraction-failure path: no success, the one error
C5_Witness ==
    /\ ParseDone
    /\ ~parsed.success
    /\ ~Has(parsed.meta, "fixes")
    /\ Len(parsed.errors) = 1

----------------------------------------------------------------------------
(* Properties of the extractor *)

ExtractionOpts == options @@ DefaultExtractionOptions

\* the text the strategies of extractJson are given
WorkingText ==
    IF ExtractionOpts.normalizeUnicodeQuotes
    THEN normalizeUnicodeQuotes(text)
    ELSE text

DirectFails == tryParseDirect(WorkingText, isDone).kind = "null"

MarkdownFails ==
    tryExtractFromMarkdown(WorkingText, ExtractionOpts, isDone, 1).kind = "null"

MultiFails ==
    tryExtractMultipleJson(WorkingText, ExtractionOpts, isDone, 1).kind = "null"

FixFails == tryFixJson(WorkingText, ExtractionOpts, isDone, 1).kind = "null"

HasTypographicQuote(cs) ==
    \E i \in 1..Len(cs) : cs[i] \in {LDQUO, RDQUO, LSQUO, RSQUO}

Fixes(result) == {result.fixes[i] : i \in 1..Len(result.fixes)}

\* C6: extractJson returns the result of the first strategy that succeeds
\* in the order direct parse, fenced block, multi-object scan, repair parse,
\* string fallback: a later strategy's result is returned only if every
\* earlier enabled strategy failed, and a disabled strategy is never run
C6_LadderOrder ==
    (ExtractDone /\ extraction.kind = "result")
    => /\ extraction.via = "direct" <=> ~DirectFails
       /\ extraction.via \in {"multi", "fix", "string"}
            => (ExtractionOpts.allowMarkdownJson => MarkdownFails)
       /\ extraction.via \in {"fix", "string"}
            => (ExtractionOpts.findAllJsonObjects => MultiFails)
       /\ extraction.via = "string"
            => (ExtractionOpts.allowFixes => FixFails)
       /\ ~ExtractionOpts.allowMarkdownJson
            => "tryExtractFromMarkdown" \notin extraction.ran
       /\ ~ExtractionOpts.findAllJsonObjects
            => "tryExtractMultipleJson" \notin extraction.ran
       /\ ~ExtractionOpts.allowFixes => "tryFixJson" \notin extraction.ran

\* C7: for a text that is strictly valid JSON and holds typographic quotes
\* in its string values, extractJson returns the strict parse of the text
\* itself and records no normalized_unicode_quotes fix
C7_SmartQuotesPreserved ==
    (/\ ExtractDone
     /\ JsonParse(text).ok
     /\ HasTypographicQuote(text))
    => /\ extraction.kind = "result"
       /\ extraction.value = JsonParse(text).val
       /\ "normalized_unicode_quotes" \notin Fixes(extraction)

\* C8: whenever the value extractJson returns was parsed from a text a
\* repair rewrite changed, the fixes list holds applied_auto_fixes
C8_RewriteIsRecorded ==
    (/\ ExtractDone
     /\ extraction.kind = "result"
     /\ "rewrite" \in extraction.repairs)
    => "applied_auto_fixes" \in Fixes(extraction)

\* C9: with allowFixes false no repair rewrite and no partial completion
\* contributes to the result of extractJson, and malformed JSON is not
\* returned as a repaired object
C9_NoRepairWithoutAllowFixes ==
    (/\ ExtractDone
     /\ extraction.kind = "result"
     /\ ~ExtractionOpts.allowFixes)
    => /\ extraction.repairs = {}
       /\ text = TrailingCommaText => extraction.value.t # "object"

\* C10: when every recognition strategy that is enabled fails on the text
\* and allowAsString is set, extractJson returns the original text as a
\* String, character for character, with isPartial the inverse of isDone
C10_AllFailThenOriginal ==
    (/\ ExtractDone
     /\ ExtractionOpts.allowAsString
     /\ DirectFails
     /\ ExtractionOpts.allowMarkdownJson => MarkdownFails
     /\ ExtractionOpts.findAllJsonObjects => MultiFails
     /\ ExtractionOpts.allowFixes => FixFails)
    => /\ extraction.kind = "result"
       /\ extraction.via = "string"
       /\ extraction.value = Str(text)
       /\ extraction.raw = text
       /\ extraction.isPartial = ~isDone

\* the fallback taken for a text that normalization changed, of a caller
\* whose input is not complete
C10_Witness ==
    /\ ExtractDone
    /\ extraction.kind = "result"
    /\ extraction.via = "string"
    /\ HasTypographicQuote(text)
    /\ "normalized_unicode_quotes" \in Fixes(extraction)
    /\ ~isDone

----------------------------------------------------------------------------
(* Properties of the pipeline *)

ParseOpts == options @@ DefaultParseOptions

\* the options of the parse as extractJson reads them
ParseExtractionOpts == ParseOpts @@ DefaultExtractionOptions

\* the text parseResponse hands to extractJson
FilteredText ==
    IF ParseOpts.filterChainOfThought /\ hasChainOfThought(text)
    THEN filterChainOfThought(text)
    ELSE text

\* whether every strategy of extractJson before the string fallback that
\* opts enables yields no result for t
StrategiesReject(t, opts) ==
    LET Reject(w) ==
            /\ tryParseDirect(w, TRUE).kind # "result"
            /\ opts.allowMarkdownJson
                 => tryExtractFromMarkdown(w, opts, TRUE, 1).kind # "result"
            /\ opts.findAllJsonObjects
                 => tryExtractMultipleJson(w, opts, TRUE, 1).kind # "result"
            /\ opts.allowFixes => tryFixJson(w, opts, TRUE, 1).kind # "result"
    IN  Reject(IF opts.normalizeUnicodeQuotes THEN normalizeUnicodeQuotes(t)
               ELSE t)

\* the result of parseResponse holds nothing of a coercion
EarlyReturn ==
    /\ ~Has(parsed.meta, "coercions")
    /\ ~Has(parsed.meta, "fixes")
    /\ ~Has(parsed.meta, "fromMarkdown")

\* C11: when allowAsString is false and every earlier strategy rejects the
\* text, parseResponse returns without a coercion: success false, exactly
\* one error, of the empty path, isPartial false and meta.raw the response;
\* no other call returns without a coercion
C11_ExtractionFailure ==
    ParseDone
    => LET failure == /\ ~ParseExtractionOpts.allowAsString
                      /\ StrategiesReject(FilteredText, ParseExtractionOpts)
       IN  /\ failure
             => /\ EarlyReturn
                /\ ~parsed.success
                /\ Len(parsed.errors) = 1
                /\ parsed.errors[1].path = << >>
                /\ parsed.errors[1].message = "JSON extraction failed"
                /\ ~parsed.isPartial
                /\ parsed.meta.raw = text
           /\ EarlyReturn => failure

\* the extraction failure of a text that is not empty, against a schema a
\* String would not satisfy
C11_Witness ==
    /\ ParseDone
    /\ ~ParseExtractionOpts.allowAsString
    /\ StrategiesReject(FilteredText, ParseExtractionOpts)
    /\ EarlyReturn
    /\ Len(text) > 0
    /\ KindOf(schema) = "Object"

\* whether the JSON value v is valid under schema s, as JSON Schema
\* validation has it: an Optional property may be absent
RECURSIVE Conforms(_, _)
Conforms(v, s) ==
    CASE KindOf(s) = "Number" ->
            v.t = "number" /\ (Has(s, "minimum") => v.v >= s.minimum)
      [] KindOf(s) = "Integer" -> v.t = "number"
      [] KindOf(s) = "String" -> v.t = "string"
      [] KindOf(s) = "Boolean" -> v.t = "boolean"
      [] KindOf(s) = "Null" -> v.t = "null"
      [] KindOf(s) = "Optional" -> v.t = "undefined" \/ Conforms(v, s.item)
      [] KindOf(s) = "Union" ->
            \E n \in 1..Len(s.anyOf) : Conforms(v, s.anyOf[n])
      [] KindOf(s) = "Array" ->
            v.t = "array" /\ \A n \in 1..Len(v.v) : Conforms(v.v[n], s.items)
      [] KindOf(s) = "Object" ->
            /\ v.t = "object"
            /\ \A n \in 1..Len(s.properties) :
                  IF HasKey(v.v, s.properties[n].k)
                  THEN Conforms(GetKey(v.v, s.properties[n].k),
                                s.properties[n].s)
                  ELSE KindOf(s.properties[n].s) = "Optional"
      [] OTHER -> FALSE

\* deep equality of two values: objects are equal when they hold the same
\* keys with deeply equal values, in whatever order
RECURSIVE DeepEquals(_, _)
DeepEquals(a, b) ==
    IF a.t # b.t THEN FALSE
    ELSE CASE a.t = "object" ->
                /\ {a.v[i].k : i \in 1..Len(a.v)} = {b.v[i].k : i \in 1..Len(b.v)}
                /\ \A i \in 1..Len(a.v) :
                      DeepEquals(a.v[i].v, GetKey(b.v, a.v[i].k))
           [] a.t = "array" ->
                /\ Len(a.v) = Len(b.v)
                /\ \A i \in 1..Len(a.v) : DeepEquals(a.v[i], b.v[i])
           [] OTHER -> a = b

\* the text is JSON.stringify(v) of a value v that is valid under the schema
SerializedValid ==
    /\ JsonParse(text).ok
    /\ JsonStringify(JsonParse(text).val) = text
    /\ Conforms(JsonParse(text).val, schema)

\* whether a string of v holds a typographic quote
RECURSIVE HoldsTypographicQuote(_)
HoldsTypographicQuote(v) ==
    CASE v.t = "string" -> HasTypographicQuote(v.v)
      [] v.t = "array" -> \E i \in 1..Len(v.v) : HoldsTypographicQuote(v.v[i])
      [] v.t = "object" ->
            \E i \in 1..Len(v.v) : HoldsTypographicQuote(v.v[i].v)
      [] OTHER -> FALSE

\* C12: for every value v that is valid under the schema, parseResponse of
\* JSON.stringify(v) returns a value that deep-equals v: for v of scalar
\* kinds and for v holding strings with typographic quotes as well
C12_RoundTrip ==
    (ParseDone /\ SerializedValid)
    => DeepEquals(parsed.value, JsonParse(text).val)

\* the text is one ```json block and nothing else
IsJsonFenced(t) ==
    /\ Len(t) >= Len(Fenced(JsonTag, << >>))
    /\ t = Fenced(JsonTag, Sub(t, Len(JsonTag) + 5, Len(t) - 4))

\* the text inside the fence of a text that is one ```json block
FenceBody(t) == Sub(t, Len(JsonTag) + 5, Len(t) - 4)

\* the text inside the fence is JSON.stringify(v) of a value v that is valid
\* under the schema
FencedSerializedValid ==
    /\ IsJsonFenced(text)
    /\ JsonParse(FenceBody(text)).ok
    /\ JsonStringify(JsonParse(FenceBody(text)).val) = FenceBody(text)
    /\ Conforms(JsonParse(FenceBody(text)).val, schema)

\* C13: for every value v that is valid under the schema, parseResponse of
\* JSON.stringify(v) inside one ```json fence returns the value, the success
\* and the errors of parseResponse of JSON.stringify(v) alone, and its
\* meta.fromMarkdown is true
C13_FencePeeling ==
    (ParseDone /\ FencedSerializedValid)
    => LET Same(plain) ==
               /\ parsed.value = plain.value
               /\ parsed.success = plain.success
               /\ parsed.errors = plain.errors
               /\ Has(parsed.meta, "fromMarkdown")
               /\ parsed.meta.fromMarkdown = TRUE
       IN  Same(parseResponse(FenceBody(text), schema, options))

----------------------------------------------------------------------------
(* Properties of the parse of a partial response *)

PartialDone == pc = "done" /\ op = "parsePartialResponse"

\* a call of either function is done
AnyParseDone == ParseDone \/ PartialDone

\* the options the parse runs with
EffectiveOpts ==
    IF op = "parsePartialResponse"
    THEN [allowPartials |-> TRUE, allowAsString |-> TRUE] @@ ParseOpts
    ELSE ParseOpts

IsPrefixOf(a, b) == Len(a) <= Len(b) /\ a = Sub(b, 1, Len(a))

\* C14: the parse, with allowPartials set, of the truncated text
\* {"items":["a","b" against Object{items: Array(String)} has isPartial true
\* and a value whose items is a prefix of ["a","b"]
C14_PartialStream ==
    (/\ AnyParseDone
     /\ EffectiveOpts.allowPartials
     /\ EffectiveOpts.allowFixes
     /\ text = TruncatedItemsText
     /\ schema = TObject1(KeyItems, TArray(TString)))
    => /\ parsed.isPartial
       /\ parsed.value.t = "object"
       /\ GetKey(parsed.value.v, KeyItems).t = "array"
       /\ IsPrefixOf(GetKey(parsed.value.v, KeyItems).v,
                     << Str(<< "a" >>), Str(<< "b" >>) >>)

\* the fields a result populates: the keys of its value, when that is an
\* object, that hold something other than null or undefined
PopulatedFields(result) ==
    IF result.value.t = "object"
    THEN {result.value.v[i].k :
            i \in {j \in 1..Len(result.value.v) : ~IsNullish(result.value.v[j].v)}}
    ELSE {}

\* C15: for parsePartialResponse against an Object schema, every field the
\* result for a prefix of the text populates is populated in the result for
\* the text, the text being a prefix of a valid JSON document
C15_PartialMonotonic ==
    (PartialDone /\ KindOf(schema) = "Object")
    => \A n \in 0..Len(text) :
          PopulatedFields(parsePartialResponse(Sub(text, 1, n), schema, options))
            \subseteq PopulatedFields(parsed)

\* the options with allowPartials and allowAsString set to true, whatever
\* they hold for the two
Forced(opts) ==
    [f \in DOMAIN opts \cup {"allowPartials", "allowAsString"} |->
        IF f \in {"allowPartials", "allowAsString"} THEN TRUE ELSE opts[f]]

\* C17: parsePartialResponse returns what parseResponse returns for the
\* options with allowPartials and allowAsString forced to true, whatever the
\* caller gave for the two, and so never returns the extraction failure
C17_PartialIsForcedParse ==
    PartialDone
    => /\ parsed = parseResponse(text, schema, Forced(options))
       /\ ~EarlyReturn

\* a call whose options hold false for both, on a text every strategy
\* rejects: parseResponse with these options would fail to extract
C17_Witness ==
    /\ PartialDone
    /\ "allowAsString" \in DOMAIN options
    /\ ~options.allowAsString
    /\ ~options.allowPartials
    /\ StrategiesReject(FilteredText, ParseExtractionOpts)
    /\ Len(text) > 0
    /\ parsed.isPartial
    /\ parsed.value = Str(text)

----------------------------------------------------------------------------
(* Properties of completeness and depth *)

\* the three rules of incompleteness: a required field of an Object target
\* absent from the input object, an empty input array for an Array target,
\* an input that is absent or null
IncompleteByRules(v, s) ==
    \/ /\ KindOf(s) = "Object"
       /\ v.t = "object"
       /\ \E n \in 1..Len(s.required) : ~HasKey(v.v, s.required[n])
    \/ /\ KindOf(s) = "Array"
       /\ v.t = "array"
       /\ Len(v.v) = 0
    \/ IsNullish(v)

\* C16: coerceValue reports isPartial true exactly when allowPartials is set
\* and the input is incomplete by the three rules; isPartial is false when
\* allowPartials is false, and false for a non-null input of another shape,
\* such as a string given to an Object target
C16_Completeness ==
    CoerceDone
    => (coercion.isPartial
          <=> CoercionOpts.allowPartials /\ IncompleteByRules(value, schema))

\* the options coerceValue runs with when parseResponse calls it: the
\* options of the parse over the coercer's defaults
CoercionOptsInParse == ParseOpts @@ DefaultCoercionOptions

\* the options extractJson runs with when parseResponse calls it
ExtractionOptsInParse == ParseOpts @@ DefaultExtractionOptions

\* C18: in a parseResponse with default options the two depth limits are
\* distinct: extractJson runs with the limit 100 and coerceValue with the
\* limit 50, beyond which coerceInternal records the exceeded depth
C18_DistinctDepthLimits ==
    (ParseDone /\ "maxDepth" \notin DOMAIN options)
    => /\ ExtractionOptsInParse.maxDepth = 100
       /\ CoercionOptsInParse.maxDepth = 50

\* C19: the coercion of a value against a schema that holds itself stops
\* at the depth limit with the error of the exceeded depth, whether the
\* schema holds itself through Array nodes or only through Union or
\* Optional nodes: unfolded further than the limit, the schema is not
\* descended to its last level
C19_CycleProtection ==
    \A i \in 1..Len(CycleKinds) :
        (/\ CoerceDone
         /\ ~IsNullish(value)
         /\ schema = Unfold(CycleKinds[i], CycleUnfold)
         /\ CycleUnfold > CoercionOpts.maxDepth + 1)
        => "Maximum depth exceeded" \in Messages(coercion.errors)

----------------------------------------------------------------------------
(* Properties of the chain-of-thought filter *)

FilterDone == pc = "done" /\ op = "filterChainOfThought"

\* the least position among ps that is a match, 0 when none is
Earliest(ps) == IF ps \ {0} = {} THEN 0 ELSE Min(ps \ {0})

\* where each class of marker first occurs in t, 0 when it does not, in the
\* order of priority: here is the json ...:, output json ...: or therefore
\* the output json is ...:, final answer: or answer:, the opening of a
\* fence with any tag or none, the brace
MarkerPositions(t) ==
    << PhraseThen(t, << "h", "e", "r", "e", " ", "i", "s", " ", "t", "h", "e", " ", "j", "s", "o", "n" >>, COLON),
       Earliest({ PhraseThen(t, << "o", "u", "t", "p", "u", "t", " ", "j", "s", "o", "n" >>, COLON),
                  PhraseThen(t, << "t", "h", "e", "r", "e", "f", "o", "r", "e", " ", "t", "h", "e", " ", "o", "u", "t", "p", "u", "t", " ", "j", "s", "o", "n", " ", "i", "s" >>, COLON) }),
       Earliest({ IndexOf(ToLower(t), << "f", "i", "n", "a", "l", " ", "a", "n", "s", "w", "e", "r", ":" >>, 1),
                  IndexOf(ToLower(t), << "a", "n", "s", "w", "e", "r", ":" >>, 1) }),
       IndexOf(t, << BTICK, BTICK, BTICK >>, 1),
       IndexOf(t, << LBRACE >>, 1) >>

\* the suffix of t from the first match of the marker of the highest
\* priority that occurs; t when none occurs
FromFirstMarker(t) ==
    LET at == MarkerPositions(t)
        occurring == {k \in 1..Len(at) : at[k] > 0}
    IN  IF occurring = {} THEN t ELSE Sub(t, at[Min(occurring)], Len(t))

\* C20: when reasoning is present, filterChainOfThought returns the suffix
\* of the text from the first match of the marker of the highest priority
\* that occurs, a fence counting with or without a language tag, and the
\* text itself when no marker occurs; surrounding white space apart
C20_TrimAtHighestPriorityMarker ==
    (FilterDone /\ hasChainOfThought(text))
    => Trim(filtered) = Trim(FromFirstMarker(text))

HasDone == pc = "done" /\ op = "hasChainOfThought"

\* the markers of reasoning that count wherever they occur
ReasoningMarkers ==
    { << "l", "e", "t", " ", "m", "e", " ", "t", "h", "i", "n", "k" >>,
      << "s", "t", "e", "p", " ", "b", "y", " ", "s", "t", "e", "p" >>,
      << "r", "e", "a", "s", "o", "n", "i", "n", "g", ":" >>,
      << "t", "h", "i", "n", "k", "i", "n", "g", ":" >>,
      << "a", "n", "a", "l", "y", "s", "i", "s", ":" >>,
      << "t", "h", "e", "r", "e", "f", "o", "r", "e" >>,
      << "i", "n", " ", "c", "o", "n", "c", "l", "u", "s", "i", "o", "n" >> }

\* a marker occurs in t in whatever case, or t starts with "first,"
ReasoningPresent(t) ==
    \/ \E m \in ReasoningMarkers : IndexOf(ToLower(t), m, 1) > 0
    \/ MatchAt(ToLower(Trim(t)), << "f", "i", "r", "s", "t", "," >>, 1)

\* C21: hasChainOfThought reports reasoning exactly when one of the markers
\* let me think, step by step, reasoning:, thinking:, analysis:, therefore,
\* in conclusion occurs in the text in whatever case, or the text has a
\* leading "first," clause
C21_DetectionMarkers ==
    HasDone => (detected <=> ReasoningPresent(text))

----------------------------------------------------------------------------
(* Properties of the filter stage of parseResponse *)

\* C22: meta.chainOfThoughtFiltered is true exactly when filterChainOfThought
\* is set, reasoning is detected and the text given to extractJson differs
\* from the response; when it is false the result is that of the response
\* given to extractJson unchanged; meta.raw is always the response
C22_FilteredFlag ==
    ParseDone
    => /\ parsed.meta.chainOfThoughtFiltered
            <=> /\ ParseOpts.filterChainOfThought
                /\ hasChainOfThought(text)
                /\ filterChainOfThought(text) # text
       /\ ~parsed.meta.chainOfThoughtFiltered
            => parsed = parseExtracted(text, schema, ParseOpts, FALSE,
                                       extractJson(text, ParseOpts, TRUE, 0))
       /\ parsed.meta.raw = text

\* reasoning before the payload is cut off and the payload is parsed
C22_Witness ==
    /\ ParseDone
    /\ hasChainOfThought(text)
    /\ parsed.meta.chainOfThoughtFiltered
    /\ parsed.meta.raw = text
    /\ parsed.value = Obj(<< [k |-> KeyA, v |-> Num(1)] >>)
    /\ parsed.success

----------------------------------------------------------------------------
(* Properties of parseAllCandidates and parseBestCandidate *)

BestDone == pc = "done" /\ op = "parseBestCandidate"

AllResults == parseAllCandidates(text, schema, options)

\* C23: parseBestCandidate returns null exactly when parseAllCandidates gives
\* no result for the same response, schema and options, and otherwise one of
\* its results, with no more errors than any of them
C23_BestCandidate ==
    BestDone
    => /\ parsed = NoCandidate <=> AllResults = << >>
       /\ parsed # NoCandidate
            => /\ \E k \in 1..Len(AllResults) : AllResults[k] = parsed
               /\ \A k \in 1..Len(AllResults) :
                    Len(parsed.errors) <= Len(AllResults[k].errors)

\* the best result is not that of the first candidate
C23_Witness ==
    /\ BestDone
    /\ Len(AllResults) >= 2
    /\ parsed # NoCandidate
    /\ parsed.errors = << >>
    /\ AllResults[1].errors # << >>

----------------------------------------------------------------------------
(* Properties of the coercion of null and of absent values *)

\* a schema that admits null: Optional, Null or a Union with a Null variant
AdmitsNull(s) == KindOf(s) \in { "Optional", "Null" } \/ isNullable(s)

\* the required properties of the Object schema s that do not admit null
\* and that the object entries leaves absent or holds null for
NullAtRequired(entries, s) ==
    { i \in 1..Len(s.properties) :
        /\ \E r \in 1..Len(s.required) : s.required[r] = s.properties[i].k
        /\ ~AdmitsNull(s.properties[i].s)
        /\ ~Has(s.properties[i].s, "default")
        /\ IsNullish(GetKey(entries, s.properties[i].k)) }

\* C24: a null or absent value at an Optional, Null or Union-with-Null
\* schema coerces to null or absent with no error; elsewhere it becomes null
\* with no error under allowPartials, and without allowPartials a required
\* field that is absent or holds an explicit null is reported as an error
C24_NullHandling ==
    CoerceDone
    => /\ IsNullish(value) /\ AdmitsNull(schema)
            => IsNullish(coercion.value) /\ coercion.errors = << >>
       /\ IsNullish(value) /\ ~AdmitsNull(schema) /\ CoercionOpts.allowPartials
            => coercion.value = Null /\ coercion.errors = << >>
       /\ (/\ value.t = "object"
           /\ KindOf(schema) = "Object"
           /\ ~CoercionOpts.allowPartials
           /\ NullAtRequired(value.v, schema) # {})
          => coercion.errors # << >>

----------------------------------------------------------------------------
(* Properties of coerceObject *)

\* how coerceObject is to resolve the declared property p of schema for the
\* object entries: from its value, from its default, left absent, or an error
Resolution(entries, p, opts) ==
    IF GetKey(entries, p.k) # Undefined THEN "value"
    ELSE IF opts.useDefaults /\ Has(p.s, "default") THEN "default"
    ELSE IF \/ ~\E r \in 1..Len(schema.required) : schema.required[r] = p.k
            \/ isOptionalProperty(p.s)
            \/ opts.allowPartials
    THEN "absent"
    ELSE "error"

ObjectDone ==
    /\ CoerceDone
    /\ value.t = "object"
    /\ KindOf(schema) = "Object"
    /\ coercion.value.t = "object"

\* the fields of value that schema does not declare
Undeclared == { n \in 1..Len(value.v) : ~HasKey(schema.properties, value.v[n].k) }

\* C25: each declared field is its coerced value if present, else its default
\* under useDefaults, else absent if optional or under allowPartials, else a
\* missing-required error; each undeclared field is kept unchanged when
\* additionalProperties is missing or true, coerced when it is a schema, and
\* dropped when it is false
C25_ObjectFields ==
    ObjectDone
    => /\ \A i \in 1..Len(schema.properties) :
            LET p == schema.properties[i]
                how == Resolution(value.v, p, CoercionOpts)
                got == GetKey(coercion.value.v, p.k)
            IN  /\ how = "value"
                     => got = coerceInternal(GetKey(value.v, p.k), p.s,
                                             CoercionOpts, p.k, 1).value
                /\ how = "default" => got = p.s.default
                /\ how \in { "absent", "error" } => got = Undefined
       /\ "Missing required field" \in Messages(coercion.errors)
            <=> \E i \in 1..Len(schema.properties) :
                   Resolution(value.v, schema.properties[i], CoercionOpts)
                     = "error"
       /\ \A n \in Undeclared :
            LET f == value.v[n]
                got == GetKey(coercion.value.v, f.k)
            IN  IF Has(schema, "additionalPropertiesSchema")
                THEN got = coerceInternal(f.v, schema.additionalPropertiesSchema,
                                          CoercionOpts, f.k, 1).value
                ELSE IF ~Has(schema, "additionalProperties")
                        \/ schema.additionalProperties
                THEN HasKey(coercion.value.v, f.k) /\ got = f.v
                ELSE ~HasKey(coercion.value.v, f.k)

----------------------------------------------------------------------------
(* Properties of coerceString *)

StringDone == CoerceDone /\ value.t = "string" /\ KindOf(schema) = "String"

\* whether the string cs has the form the format asks for: for "email", an
\* at sign with text before it and after it
FormatTest(format, cs) ==
    CASE format = "email" ->
            \E i \in 2..(Len(cs) - 1) : cs[i] = "@"

\* the constraints of the String schema s that the string cs violates
Violated(cs, s) ==
    { c \in { "minLength", "maxLength", "pattern", "format" } :
        /\ Has(s, c)
        /\ CASE c = "minLength" -> Len(cs) < s.minLength
             [] c = "maxLength" -> Len(cs) > s.maxLength
             [] c = "pattern" -> ~PatternTest(s.pattern, cs)
             [] c = "format" -> ~FormatTest(s.format, cs) }

\* C26: a string that violates minLength, maxLength, pattern or format of a
\* String schema gives one error for each violated constraint, and the
\* string itself is returned as the value
C26_StringConstraints ==
    StringDone
    => /\ coercion.value = value
       /\ Len(coercion.errors) = Cardinality(Violated(value.v, schema))
       /\ coercion.success <=> Violated(value.v, schema) = {}

----------------------------------------------------------------------------
(* Properties of tryExtractFromMarkdown *)

\* the fenced blocks of the text that count as JSON blocks
QualifyingBlocks == SelectSeq(CodeBlocks(WorkingText, 1), IsJsonBlock)

\* the values of the blocks that JSON.parse accepts, in block order
RECURSIVE StrictValues(_)
StrictValues(blocks) ==
    IF blocks = << >> THEN << >>
    ELSE (IF JsonParse(blocks[1].content).ok
          THEN << JsonParse(blocks[1].content).val >> ELSE << >>)
           \o StrictValues(Tail(blocks))

FromMarkdownDone ==
    /\ ExtractDone
    /\ extraction.kind = "result"
    /\ extraction.via = "markdown"

\* C27: with several JSON blocks, the value is that of the one block that
\* JSON.parse accepts, or the array of those it accepts in block order, and
\* a repair is applied only when it accepts none; with one JSON block the
\* result is that of extractJson on its body, with fromMarkdown set
C27_FencedBlocks ==
    FromMarkdownDone
    => /\ (Len(QualifyingBlocks) > 1 /\ Len(StrictValues(QualifyingBlocks)) = 1)
            => extraction.value = StrictValues(QualifyingBlocks)[1]
       /\ (Len(QualifyingBlocks) > 1 /\ Len(StrictValues(QualifyingBlocks)) > 1)
            => extraction.value = Arr(StrictValues(QualifyingBlocks))
       /\ (Len(QualifyingBlocks) > 1 /\ Len(StrictValues(QualifyingBlocks)) > 0)
            => extraction.repairs = {}
       /\ (/\ Len(QualifyingBlocks) = 1
           /\ extractJson(QualifyingBlocks[1].content, ExtractionOpts, isDone,
                          1).kind = "result")
            => /\ extraction.fromMarkdown
               /\ extraction.value
                    = extractJson(QualifyingBlocks[1].content, ExtractionOpts,
                                  isDone, 1).value

----------------------------------------------------------------------------
(* Properties of the recursion of extractJson *)

\* extractJson at depth 0 gets to tryExtractFromMarkdown, which finds one
\* JSON block and calls extractJson on its body, at depth 1
Descends ==
    /\ ExtractionOpts.maxDepth >= 0
    /\ DirectFails
    /\ ExtractionOpts.allowMarkdownJson
    /\ Len(QualifyingBlocks) = 1

\* C28: the descent of extractJson into a fenced block raises the depth to
\* 1, and when that exceeds maxDepth the extraction fails: extractJson
\* throws, and no other strategy gives a value
C28_DepthLimitFails ==
    (ExtractDone /\ Descends /\ 1 > ExtractionOpts.maxDepth)
    => extraction.kind = "throw"

\* the bodies of the fenced blocks codeBlockRegex finds in the text
Bodies ==
    { CodeBlocks(WorkingText, 1)[n].content :
        n \in 1..Len(CodeBlocks(WorkingText, 1)) }

\* C29: whatever maxDepth is, the body of a fenced block holds no fence, so
\* tryExtractFromMarkdown finds no block in it and the extractJson it calls
\* on the body, at depth 1, calls extractJson no further; every call of
\* extractJson ends, with a result or an error
C29_RecursionBounded ==
    ExtractDone
    => /\ extraction.kind \in { "result", "throw" }
       /\ \A body \in Bodies :
            /\ IndexOf(body, Fence, 1) = 0
            /\ CodeBlocks(body, 1) = << >>
            /\ tryExtractFromMarkdown(body, ExtractionOpts, isDone, 2)
                 = NoResult({"tryExtractFromMarkdown"})

\* a text with three fences has been extracted from, by the descent into
\* the body of its first block
C29_Witness ==
    /\ ExtractDone
    /\ Descends
    /\ Len(CodeBlocks(WorkingText, 1)) = 1
    /\ \E i \in 1..Len(text) :
          /\ MatchAt(text, Fence, i)
          /\ IndexOf(text, Fence, i + 3) > 0
          /\ IndexOf(text, Fence, IndexOf(text, Fence, i + 3) + 3) > 0
    /\ extraction.kind = "result"
    /\ extraction.fromMarkdown

----------------------------------------------------------------------------
(* Properties of filterChainOfThought as a function *)

\* C30: filterChainOfThought only removes a prefix and is idempotent: its
\* result is a suffix of the text with the white space trimmed, and
\* filtering the result again gives the same result
C30_FilterIdempotent ==
    FilterDone
    => /\ \E i \in 1..(Len(text) + 1) :
            filtered = Trim(Sub(text, i, Len(text)))
       /\ filterChainOfThought(filtered) = filtered

=============================================================================
